---------------------------- MODULE Spec2Model ----------------------------
(***************************************************************************)
(* MAX6921 VFD driver (max6921.c / max6921.h) as a state machine.          *)
(*                                                                         *)
(* The driver owns one process-wide state object, g_vfd_state.  Every      *)
(* public function of the library is one action; the calls it makes on     *)
(* the transport (SPI write, GPIO writes, busy delays) are recorded, in     *)
(* order, in the variable events, and the transport's own state (gpio,     *)
(* spi_enabled) is obtained by replaying those calls.                      *)
(***************************************************************************)
EXTENDS Integers, Sequences, FiniteSets, TLC

VARIABLES
    g_vfd_state,   \* the driver's static state object
    gpio,          \* transport: per-pin function / direction / level
    spi_enabled,   \* transport: SPI peripheral configured
    handle,        \* what the caller last got from vfd_get_buffer
    op,            \* the public call that produced this state, with arguments
    ret,           \* its return value
    out,           \* value delivered through its out-parameter
    events,        \* transport calls it made, in order
    touched,       \* display_buffer indices it read or wrote
    input,         \* the argument drawn for the call under study, if one is
    running        \* the vfd_refresh in progress, when its steps are followed

vars == <<g_vfd_state, gpio, spi_enabled, handle, op, ret, out, events, touched,
          input, running>>

---------------------------------------------------------------------------
(* Error codes, max6921.h *)
VFD_OK == 0
VFD_ERR_INVALID_PARAM == 1
VFD_ERR_NOT_INITIALIZED == 2
VFD_ERR_INVALID_GRID == 3
VFD_ERR_INVALID_SEGMENT == 4
VFD_ERR_HARDWARE == 5

(* Segment patterns, max6921.h *)
VFD_DIGIT_0 == 63
VFD_DIGIT_1 == 6
VFD_DIGIT_2 == 91
VFD_DIGIT_3 == 79
VFD_DIGIT_4 == 102
VFD_DIGIT_5 == 109
VFD_DIGIT_6 == 125
VFD_DIGIT_7 == 7
VFD_DIGIT_8 == 127
VFD_DIGIT_9 == 111
VFD_SYMBOL_DOT == 128
VFD_SYMBOL_DASH == 64
VFD_BLANK == 0

(* Pointer arguments: the null pointer, and a pointer to the object x *)
NullPtr == [null |-> TRUE]
Ptr(x) == [null |-> FALSE, v |-> x]

---------------------------------------------------------------------------
(* C integer arithmetic *)

RECURSIVE BitOr(_, _)
BitOr(a, b) ==
    IF a = 0 THEN b
    ELSE IF b = 0 THEN a
    ELSE (IF a % 2 = 1 \/ b % 2 = 1 THEN 1 ELSE 0) + 2 * BitOr(a \div 2, b \div 2)

\* (uint32_t)x << n, for x below 2^16 and n at most 17: the product is below
\* 2^32, so the shift loses no bit
Shl32(x, n) == x * 2^n
Shr(x, n) == x \div 2^n
Low8(x) == x % 256
U8(x) == x % 256

---------------------------------------------------------------------------
(* Tables *)

\* Variant of GRID_PATTERNS: the table in the opposite order (grid g on bit g)
GRID_PATTERNS_reversed(grid) == <<1, 2, 4, 8, 16, 32, 64, 128, 256>>[grid + 1]

\* GRID_PATTERNS[grid], grid in 0..8 (the C array is 0-based)
GRID_PATTERNS(grid) == <<256, 128, 64, 32, 16, 8, 4, 2, 1>>[grid + 1]

\* Variant of DIGIT_PATTERNS: 6 without segment A and 9 without segment D
DIGIT_PATTERNS_short_6_9(i) ==
    <<VFD_DIGIT_0, VFD_DIGIT_1, VFD_DIGIT_2, VFD_DIGIT_3, VFD_DIGIT_4,
      VFD_DIGIT_5, 124, VFD_DIGIT_7, VFD_DIGIT_8, 103,
      VFD_SYMBOL_DOT, VFD_SYMBOL_DASH, VFD_BLANK>>[i + 1]

\* DIGIT_PATTERNS[i], i in 0..12
DIGIT_PATTERNS(i) ==
    <<VFD_DIGIT_0, VFD_DIGIT_1, VFD_DIGIT_2, VFD_DIGIT_3, VFD_DIGIT_4,
      VFD_DIGIT_5, VFD_DIGIT_6, VFD_DIGIT_7, VFD_DIGIT_8, VFD_DIGIT_9,
      VFD_SYMBOL_DOT, VFD_SYMBOL_DASH, VFD_BLANK>>[i + 1]

_is_valid_grid(grid) == grid < 9

\* Variant of _is_valid_segment: the decimal point bit is out of range
_is_valid_segment_7bit(segment) == segment < 128

_is_valid_segment(segment) == TRUE

---------------------------------------------------------------------------
(* Transport calls *)

SpiWrite(b0, b1, b2) == <<"spi_write_blocking", b0, b1, b2>>
GpioPut(pin, v) == <<"gpio_put", pin, v, 0>>
SleepUs(us) == <<"sleep_us", us, 0, 0>>
SpiInit(baud, actual) == <<"spi_init", baud, actual, 0>>
SpiDeinit == <<"spi_deinit", 0, 0, 0>>
GpioSetFunctionSpi(pin) == <<"gpio_set_function", pin, 1, 0>>
GpioInit(pin) == <<"gpio_init", pin, 0, 0>>
GpioSetDirOut(pin) == <<"gpio_set_dir", pin, 1, 0>>
StdioInitAll == <<"stdio_init_all", 0, 0, 0>>


\* What one transport call does to the transport
HwStep(hw, e) ==
    CASE e[1] = "spi_init" ->
            [hw EXCEPT !.spi_enabled = (e[3] # 0)]
      [] e[1] = "spi_deinit" ->
            [hw EXCEPT !.spi_enabled = FALSE]
      [] e[1] = "gpio_set_function" ->
            [hw EXCEPT !.gpio[e[2]].func = "SPI"]
      [] e[1] = "gpio_init" ->
            [hw EXCEPT !.gpio[e[2]] = [func |-> "SIO", out_dir |-> FALSE, level |-> 0]]
      [] e[1] = "gpio_set_dir" ->
            [hw EXCEPT !.gpio[e[2]].out_dir = (e[3] = 1)]
      [] e[1] = "gpio_put" ->
            [hw EXCEPT !.gpio[e[2]].level = e[3]]
      [] OTHER -> hw

RECURSIVE HwReplay(_, _)
HwReplay(hw, ev) ==
    IF ev = <<>> THEN hw ELSE HwReplay(HwStep(hw, Head(ev)), Tail(ev))

---------------------------------------------------------------------------
(* Driver internals *)

\* vfd_default_config()
vfd_default_config ==
    [spi_baudrate |-> 2000000, pin_spi_tx |-> 11, pin_spi_clk |-> 10,
     pin_latch |-> 13, refresh_interval_us |-> 1500]

\* The static initializer of g_vfd_state
g_vfd_state_init ==
    [initialized |-> FALSE,
     config |-> [spi_baudrate |-> 0, pin_spi_tx |-> 0, pin_spi_clk |-> 0,
                 pin_latch |-> 0, refresh_interval_us |-> 0],
     display_buffer |-> [i \in 0..8 |-> 0],
     spi_data |-> [i \in 0..2 |-> 0]]

\* memset(display_buffer, value, sizeof(vfd_display_buffer_t))
memset_buffer(value) == [i \in 0..8 |-> U8(value)]

\* Variant of combined_data: the grid mask shifted by 7, overlapping segment H
combined_data_shift7(grid, segments) == BitOr(Shl32(GRID_PATTERNS(grid), 7), segments)

\* Variant of raw_spi_data: the word moved up 4 bits before it is split
raw_spi_data_shift4(word) ==
    [i \in 0..2 |-> CASE i = 0 -> Low8(Shr(word * 16, 16))
                      [] i = 1 -> Low8(Shr(word * 16, 8))
                      [] i = 2 -> Low8(word * 16)]

\* Variant of raw_spi_data: the bytes in the opposite order
raw_spi_data_lsb_first(word) ==
    [i \in 0..2 |-> CASE i = 0 -> Low8(word)
                      [] i = 1 -> Low8(Shr(word, 8))
                      [] i = 2 -> Low8(Shr(word, 16))]

\* _write_vfd_raw: the 20-bit word for a grid and its segments
combined_data(grid, segments) == BitOr(Shl32(GRID_PATTERNS(grid), 8), segments)

\* _write_vfd_raw: the word split into spi_data[0..2]
raw_spi_data(word) ==
    [i \in 0..2 |-> CASE i = 0 -> Low8(Shr(word, 16))
                      [] i = 1 -> Low8(Shr(word, 8))
                      [] i = 2 -> Low8(word)]

\* Variant of _write_vfd_raw: the latch is raised before the serial write
_write_vfd_raw_latch_first(s, grid, segments) ==
    IF ~_is_valid_grid(grid)
    THEN [st |-> s, ev |-> <<>>]
    ELSE LET d == raw_spi_data(combined_data(grid, segments))
         IN  [st |-> [s EXCEPT !.spi_data = d],
              ev |-> <<GpioPut(s.config.pin_latch, 1),
                       SpiWrite(d[0], d[1], d[2]),
                       SleepUs(1),
                       GpioPut(s.config.pin_latch, 0)>>]

\* Variant of _write_vfd_raw: the latch is raised and dropped with no hold
_write_vfd_raw_no_hold(s, grid, segments) ==
    IF ~_is_valid_grid(grid)
    THEN [st |-> s, ev |-> <<>>]
    ELSE LET d == raw_spi_data(combined_data(grid, segments))
         IN  [st |-> [s EXCEPT !.spi_data = d],
              ev |-> <<SpiWrite(d[0], d[1], d[2]),
                       GpioPut(s.config.pin_latch, 1),
                       GpioPut(s.config.pin_latch, 0)>>]

\* _write_vfd_raw(grid, segments): new driver state and the transport calls
_write_vfd_raw(s, grid, segments) ==
    IF ~_is_valid_grid(grid)
    THEN [st |-> s, ev |-> <<>>]
    ELSE LET d == raw_spi_data(combined_data(grid, segments))
         IN  [st |-> [s EXCEPT !.spi_data = d],
              ev |-> <<SpiWrite(d[0], d[1], d[2]),
                       GpioPut(s.config.pin_latch, 1),
                       SleepUs(1),
                       GpioPut(s.config.pin_latch, 0)>>]

\* _init_gpio(config); actual_baudrate is what spi_init reports
_init_gpio(config, actual_baudrate) ==
    IF actual_baudrate = 0
    THEN [ret |-> VFD_ERR_HARDWARE,
          ev  |-> <<SpiInit(config.spi_baudrate, actual_baudrate)>>]
    ELSE [ret |-> VFD_OK,
          ev  |-> << SpiInit(config.spi_baudrate, actual_baudrate),
                     GpioSetFunctionSpi(config.pin_spi_clk),
                     GpioSetFunctionSpi(config.pin_spi_tx),
                     GpioInit(config.pin_latch),
                     GpioSetDirOut(config.pin_latch),
                     GpioPut(config.pin_latch, 0) >>]

---------------------------------------------------------------------------
(* Public API as functions of the driver state.  Each yields               *)
(*   st  the driver state after the call     ret  the return value         *)
(*   ev  the transport calls, in order       idx  buffer indices accessed  *)

vfd_clear(s) ==
    [st |-> [s EXCEPT !.display_buffer = memset_buffer(VFD_BLANK)],
     ret |-> VFD_OK, ev |-> <<>>, idx |-> 0..8]

\* Variant of vfd_init: the configuration is stored without being validated
vfd_init_unvalidated(s, config, actual_baudrate) ==
    IF s.initialized
    THEN [st |-> s, ret |-> VFD_OK, ev |-> <<>>, idx |-> {}]
    ELSE LET s1 == [s EXCEPT !.config = IF config.null THEN vfd_default_config
                                                     ELSE config.v]
             g  == _init_gpio(s1.config, actual_baudrate)
         IN  IF g.ret # VFD_OK
             THEN [st |-> s1, ret |-> g.ret, ev |-> <<StdioInitAll>> \o g.ev, idx |-> {}]
             ELSE [st |-> [vfd_clear(s1).st EXCEPT !.initialized = TRUE],
                   ret |-> VFD_OK, ev |-> <<StdioInitAll>> \o g.ev, idx |-> 0..8]

\* Variant of vfd_init: the supplied configuration is ignored
vfd_init_default_only(s, config, actual_baudrate) ==
    IF s.initialized
    THEN [st |-> s, ret |-> VFD_OK, ev |-> <<>>, idx |-> {}]
    ELSE IF ~config.null /\ (config.v.spi_baudrate = 0 \/ config.v.refresh_interval_us = 0)
    THEN [st |-> s, ret |-> VFD_ERR_INVALID_PARAM, ev |-> <<>>, idx |-> {}]
    ELSE LET s1 == [s EXCEPT !.config = vfd_default_config]
             g  == _init_gpio(s1.config, actual_baudrate)
         IN  IF g.ret # VFD_OK
             THEN [st |-> s1, ret |-> g.ret, ev |-> <<StdioInitAll>> \o g.ev, idx |-> {}]
             ELSE [st |-> [vfd_clear(s1).st EXCEPT !.initialized = TRUE],
                   ret |-> VFD_OK, ev |-> <<StdioInitAll>> \o g.ev, idx |-> 0..8]

\* Variant of vfd_init: an initialized driver is set up again
vfd_init_again(s, config, actual_baudrate) ==
    IF ~config.null /\ (config.v.spi_baudrate = 0 \/ config.v.refresh_interval_us = 0)
    THEN [st |-> s, ret |-> VFD_ERR_INVALID_PARAM, ev |-> <<>>, idx |-> {}]
    ELSE LET s1 == [s EXCEPT !.config = IF config.null THEN vfd_default_config
                                                     ELSE config.v]
             g  == _init_gpio(s1.config, actual_baudrate)
         IN  IF g.ret # VFD_OK
             THEN [st |-> s1, ret |-> g.ret, ev |-> <<StdioInitAll>> \o g.ev, idx |-> {}]
             ELSE [st |-> [vfd_clear(s1).st EXCEPT !.initialized = TRUE],
                   ret |-> VFD_OK, ev |-> <<StdioInitAll>> \o g.ev, idx |-> 0..8]

\* Variant of vfd_init: only the clock rate of the configuration is validated
vfd_init_baud_only(s, config, actual_baudrate) ==
    IF s.initialized
    THEN [st |-> s, ret |-> VFD_OK, ev |-> <<>>, idx |-> {}]
    ELSE IF ~config.null /\ config.v.spi_baudrate = 0
    THEN [st |-> s, ret |-> VFD_ERR_INVALID_PARAM, ev |-> <<>>, idx |-> {}]
    ELSE LET s1 == [s EXCEPT !.config = IF config.null THEN vfd_default_config
                                                     ELSE config.v]
             g  == _init_gpio(s1.config, actual_baudrate)
         IN  IF g.ret # VFD_OK
             THEN [st |-> s1, ret |-> g.ret, ev |-> <<StdioInitAll>> \o g.ev, idx |-> {}]
             ELSE [st |-> [vfd_clear(s1).st EXCEPT !.initialized = TRUE],
                   ret |-> VFD_OK, ev |-> <<StdioInitAll>> \o g.ev, idx |-> 0..8]

\* Variant of vfd_init: the configuration is validated before the
\* initialized flag is looked at
vfd_init_validate_first(s, config, actual_baudrate) ==
    IF ~config.null /\ (config.v.spi_baudrate = 0 \/ config.v.refresh_interval_us = 0)
    THEN [st |-> s, ret |-> VFD_ERR_INVALID_PARAM, ev |-> <<>>, idx |-> {}]
    ELSE IF s.initialized
    THEN [st |-> s, ret |-> VFD_OK, ev |-> <<>>, idx |-> {}]
    ELSE LET s1 == [s EXCEPT !.config = IF config.null THEN vfd_default_config
                                                     ELSE config.v]
             g  == _init_gpio(s1.config, actual_baudrate)
         IN  IF g.ret # VFD_OK
             THEN [st |-> s1, ret |-> g.ret, ev |-> <<StdioInitAll>> \o g.ev, idx |-> {}]
             ELSE [st |-> [vfd_clear(s1).st EXCEPT !.initialized = TRUE],
                   ret |-> VFD_OK, ev |-> <<StdioInitAll>> \o g.ev, idx |-> 0..8]

vfd_init(s, config, actual_baudrate) ==
    IF s.initialized
    THEN [st |-> s, ret |-> VFD_OK, ev |-> <<>>, idx |-> {}]
    ELSE IF ~config.null /\ (config.v.spi_baudrate = 0 \/ config.v.refresh_interval_us = 0)
    THEN [st |-> s, ret |-> VFD_ERR_INVALID_PARAM, ev |-> <<>>, idx |-> {}]
    ELSE LET s1 == [s EXCEPT !.config = IF config.null THEN vfd_default_config
                                                     ELSE config.v]
             g  == _init_gpio(s1.config, actual_baudrate)
         IN  IF g.ret # VFD_OK
             THEN [st |-> s1, ret |-> g.ret, ev |-> <<StdioInitAll>> \o g.ev, idx |-> {}]
             ELSE [st |-> [vfd_clear(s1).st EXCEPT !.initialized = TRUE],
                   ret |-> VFD_OK, ev |-> <<StdioInitAll>> \o g.ev, idx |-> 0..8]

vfd_is_initialized(s) == s.initialized

\* Variant of refresh_loop: a grid whose cell is blank is passed over
RECURSIVE refresh_loop_skip_blank(_, _, _, _)
refresh_loop_skip_blank(s, grid, ev, idx) ==
    IF ~(grid < 9)
    THEN [st |-> s, ret |-> VFD_OK, ev |-> ev, idx |-> idx]
    ELSE IF s.display_buffer[grid] = VFD_BLANK
    THEN refresh_loop_skip_blank(s, U8(grid + 1), ev, idx \cup {grid})
    ELSE LET w == _write_vfd_raw(s, grid, s.display_buffer[grid])
         IN  refresh_loop_skip_blank(w.st, U8(grid + 1),
                          ev \o w.ev \o <<SleepUs(s.config.refresh_interval_us)>>,
                          idx \cup {grid})

\* The for loop of vfd_refresh, from grid on
RECURSIVE refresh_loop(_, _, _, _)
refresh_loop(s, grid, ev, idx) ==
    IF ~(grid < 9)
    THEN [st |-> s, ret |-> VFD_OK, ev |-> ev, idx |-> idx]
    ELSE LET w == _write_vfd_raw(s, grid, s.display_buffer[grid])
         IN  refresh_loop(w.st, U8(grid + 1),
                          ev \o w.ev \o <<SleepUs(s.config.refresh_interval_us)>>,
                          idx \cup {grid})

\* Variant of vfd_refresh: the initialized check is missing
vfd_refresh_unchecked(s) == refresh_loop(s, 0, <<>>, {})

vfd_refresh(s) ==
    IF ~s.initialized
    THEN [st |-> s, ret |-> VFD_ERR_NOT_INITIALIZED, ev |-> <<>>, idx |-> {}]
    ELSE refresh_loop(s, 0, <<>>, {})

\* Variant of vfd_deinit: the initialized flag is dropped before the refresh
vfd_deinit_flag_first(s) ==
    IF ~s.initialized
    THEN [st |-> s, ret |-> VFD_ERR_NOT_INITIALIZED, ev |-> <<>>, idx |-> {}]
    ELSE LET r == vfd_refresh([vfd_clear(s).st EXCEPT !.initialized = FALSE])
         IN  [st |-> r.st, ret |-> VFD_OK, ev |-> r.ev \o <<SpiDeinit>>, idx |-> 0..8]

vfd_deinit(s) ==
    IF ~s.initialized
    THEN [st |-> s, ret |-> VFD_ERR_NOT_INITIALIZED, ev |-> <<>>, idx |-> {}]
    ELSE LET r == vfd_refresh(vfd_clear(s).st)
         IN  [st |-> [r.st EXCEPT !.initialized = FALSE],
              ret |-> VFD_OK, ev |-> r.ev \o <<SpiDeinit>>, idx |-> 0..8]

\* Variant of vfd_write_segments: the display is refreshed after the store
vfd_write_segments_refreshing(s, grid, segments) ==
    IF ~s.initialized
    THEN [st |-> s, ret |-> VFD_ERR_NOT_INITIALIZED, ev |-> <<>>, idx |-> {}]
    ELSE IF ~_is_valid_grid(grid)
    THEN [st |-> s, ret |-> VFD_ERR_INVALID_GRID, ev |-> <<>>, idx |-> {}]
    ELSE LET r == vfd_refresh([s EXCEPT !.display_buffer[grid] = segments])
         IN  [st |-> r.st, ret |-> VFD_OK, ev |-> r.ev, idx |-> {grid}]

\* Variant of vfd_write_segments: only the 7 segment bits are stored
vfd_write_segments_7bit(s, grid, segments) ==
    IF ~s.initialized
    THEN [st |-> s, ret |-> VFD_ERR_NOT_INITIALIZED, ev |-> <<>>, idx |-> {}]
    ELSE IF ~_is_valid_grid(grid)
    THEN [st |-> s, ret |-> VFD_ERR_INVALID_GRID, ev |-> <<>>, idx |-> {}]
    ELSE [st |-> [s EXCEPT !.display_buffer[grid] = segments % 128],
          ret |-> VFD_OK, ev |-> <<>>, idx |-> {grid}]

vfd_write_segments(s, grid, segments) ==
    IF ~s.initialized
    THEN [st |-> s, ret |-> VFD_ERR_NOT_INITIALIZED, ev |-> <<>>, idx |-> {}]
    ELSE IF ~_is_valid_grid(grid)
    THEN [st |-> s, ret |-> VFD_ERR_INVALID_GRID, ev |-> <<>>, idx |-> {}]
    ELSE IF ~_is_valid_segment(segments)
    THEN [st |-> s, ret |-> VFD_ERR_INVALID_SEGMENT, ev |-> <<>>, idx |-> {}]
    ELSE [st |-> [s EXCEPT !.display_buffer[grid] = segments],
          ret |-> VFD_OK, ev |-> <<>>, idx |-> {grid}]

\* segments is the out-pointer; val is what is stored through it (-1: nothing)
vfd_read_segments(s, grid, segments) ==
    IF ~s.initialized
    THEN [st |-> s, ret |-> VFD_ERR_NOT_INITIALIZED, ev |-> <<>>, idx |-> {}, val |-> -1]
    ELSE IF ~_is_valid_grid(grid)
    THEN [st |-> s, ret |-> VFD_ERR_INVALID_GRID, ev |-> <<>>, idx |-> {}, val |-> -1]
    ELSE IF segments.null
    THEN [st |-> s, ret |-> VFD_ERR_INVALID_PARAM, ev |-> <<>>, idx |-> {}, val |-> -1]
    ELSE [st |-> s, ret |-> VFD_OK, ev |-> <<>>, idx |-> {grid},
          val |-> s.display_buffer[grid]]

\* Variant of vfd_write_digit: any index of DIGIT_PATTERNS is accepted
vfd_write_digit_le12(s, grid, digit) ==
    IF ~s.initialized
    THEN [st |-> s, ret |-> VFD_ERR_NOT_INITIALIZED, ev |-> <<>>, idx |-> {}]
    ELSE IF ~_is_valid_grid(grid)
    THEN [st |-> s, ret |-> VFD_ERR_INVALID_GRID, ev |-> <<>>, idx |-> {}]
    ELSE IF digit > 12
    THEN [st |-> s, ret |-> VFD_ERR_INVALID_PARAM, ev |-> <<>>, idx |-> {}]
    ELSE [st |-> [s EXCEPT !.display_buffer[grid] = DIGIT_PATTERNS(digit)],
          ret |-> VFD_OK, ev |-> <<>>, idx |-> {grid}]

\* Variant of vfd_write_digit: the digit is validated before the grid
vfd_write_digit_digit_first(s, grid, digit) ==
    IF ~s.initialized
    THEN [st |-> s, ret |-> VFD_ERR_NOT_INITIALIZED, ev |-> <<>>, idx |-> {}]
    ELSE IF digit > 9
    THEN [st |-> s, ret |-> VFD_ERR_INVALID_PARAM, ev |-> <<>>, idx |-> {}]
    ELSE IF ~_is_valid_grid(grid)
    THEN [st |-> s, ret |-> VFD_ERR_INVALID_GRID, ev |-> <<>>, idx |-> {}]
    ELSE [st |-> [s EXCEPT !.display_buffer[grid] = DIGIT_PATTERNS(digit)],
          ret |-> VFD_OK, ev |-> <<>>, idx |-> {grid}]

vfd_write_digit(s, grid, digit) ==
    IF ~s.initialized
    THEN [st |-> s, ret |-> VFD_ERR_NOT_INITIALIZED, ev |-> <<>>, idx |-> {}]
    ELSE IF ~_is_valid_grid(grid)
    THEN [st |-> s, ret |-> VFD_ERR_INVALID_GRID, ev |-> <<>>, idx |-> {}]
    ELSE IF digit > 9
    THEN [st |-> s, ret |-> VFD_ERR_INVALID_PARAM, ev |-> <<>>, idx |-> {}]
    ELSE [st |-> [s EXCEPT !.display_buffer[grid] = DIGIT_PATTERNS(digit)],
          ret |-> VFD_OK, ev |-> <<>>, idx |-> {grid}]

\* Variant of vfd_fill_buffer: the last cell is left out
vfd_fill_buffer_8cells(s, segments) ==
    IF ~s.initialized
    THEN [st |-> s, ret |-> VFD_ERR_NOT_INITIALIZED, ev |-> <<>>, idx |-> {}]
    ELSE [st |-> [s EXCEPT !.display_buffer =
                      [i \in 0..8 |-> IF i < 8 THEN U8(segments)
                                      ELSE s.display_buffer[i]]],
          ret |-> VFD_OK, ev |-> <<>>, idx |-> 0..7]

vfd_fill_buffer(s, segments) ==
    IF ~s.initialized
    THEN [st |-> s, ret |-> VFD_ERR_NOT_INITIALIZED, ev |-> <<>>, idx |-> {}]
    ELSE [st |-> [s EXCEPT !.display_buffer = memset_buffer(segments)],
          ret |-> VFD_OK, ev |-> <<>>, idx |-> 0..8]

\* Variant of vfd_get_buffer: the address is given out in every state
vfd_get_buffer_unchecked(s) == Ptr("display_buffer")

\* vfd_get_buffer(): NULL, or the address of the driver's own buffer
vfd_get_buffer(s) == IF ~s.initialized THEN NullPtr ELSE Ptr("display_buffer")

\* Variant of control_word: the command placed one bit lower
control_word_shift16(command) == Shl32(command, 16)

\* vfd_send_control_command: the word and its split into spi_data[0..2]
control_word(command) == Shl32(command, 17)

cmd_spi_data(word) ==
    [i \in 0..2 |-> CASE i = 0 -> Low8(Shr(word, 16))
                      [] i = 1 -> Low8(Shr(word, 8))
                      [] i = 2 -> Low8(word)]

\* Variant of vfd_send_control_command: a command above 7 is cut to 3 bits
vfd_send_control_command_masked(s, cmd) ==
    IF ~s.initialized
    THEN [st |-> s, ret |-> VFD_ERR_NOT_INITIALIZED, ev |-> <<>>, idx |-> {}]
    ELSE IF cmd.null
    THEN [st |-> s, ret |-> VFD_ERR_INVALID_PARAM, ev |-> <<>>, idx |-> {}]
    ELSE LET d == cmd_spi_data(control_word(cmd.v % 8))
         IN  [st |-> [s EXCEPT !.spi_data = d],
              ret |-> VFD_OK,
              ev |-> <<SpiWrite(d[0], d[1], d[2]),
                       GpioPut(s.config.pin_latch, 1),
                       SleepUs(1),
                       GpioPut(s.config.pin_latch, 0)>>,
              idx |-> {}]

\* cmd points to a vfd_control_command_t, whose only field is command
vfd_send_control_command(s, cmd) ==
    IF ~s.initialized
    THEN [st |-> s, ret |-> VFD_ERR_NOT_INITIALIZED, ev |-> <<>>, idx |-> {}]
    ELSE IF cmd.null
    THEN [st |-> s, ret |-> VFD_ERR_INVALID_PARAM, ev |-> <<>>, idx |-> {}]
    ELSE IF cmd.v > 7
    THEN [st |-> s, ret |-> VFD_ERR_INVALID_PARAM, ev |-> <<>>, idx |-> {}]
    ELSE LET d == cmd_spi_data(control_word(cmd.v))
         IN  [st |-> [s EXCEPT !.spi_data = d],
              ret |-> VFD_OK,
              ev |-> <<SpiWrite(d[0], d[1], d[2]),
                       GpioPut(s.config.pin_latch, 1),
                       SleepUs(1),
                       GpioPut(s.config.pin_latch, 0)>>,
              idx |-> {}]

(* vfd_write_string.  A string is the sequence of its character codes up   *)
(* to, not including, the terminating NUL.                                 *)
CH_0 == 48
CH_9 == 57
CH_DASH == 45
CH_DOT == 46
CH_SPACE == 32

\* Variant of write_string_loop: the loop runs while grid <= 9
RECURSIVE write_string_loop_le9(_, _, _, _, _)
write_string_loop_le9(s, str, i, grid, idx) ==
    IF ~(i <= Len(str) /\ grid <= 9)
    THEN [st |-> s, ret |-> VFD_OK, ev |-> <<>>, idx |-> idx]
    ELSE LET c == str[i] IN
         IF c >= CH_0 /\ c <= CH_9
         THEN LET r == vfd_write_digit(s, grid, U8(c - CH_0))
              IN  IF r.ret # VFD_OK
                  THEN [st |-> r.st, ret |-> r.ret, ev |-> <<>>, idx |-> idx \cup r.idx]
                  ELSE write_string_loop_le9(r.st, str, i + 1, U8(grid + 1),
                                             idx \cup r.idx)
         ELSE IF c = CH_DASH
         THEN write_string_loop_le9(
                  IF grid \in 0..8
                  THEN [s EXCEPT !.display_buffer[grid] = VFD_SYMBOL_DASH] ELSE s,
                  str, i + 1, U8(grid + 1), idx \cup {grid})
         ELSE IF c = CH_DOT
         THEN IF grid > 0
              THEN write_string_loop_le9(
                       [s EXCEPT !.display_buffer[grid - 1] =
                                     BitOr(s.display_buffer[grid - 1], VFD_SYMBOL_DOT)],
                       str, i + 1, grid, idx \cup {grid - 1})
              ELSE write_string_loop_le9(s, str, i + 1, grid, idx)
         ELSE IF c = CH_SPACE
         THEN write_string_loop_le9(
                  IF grid \in 0..8
                  THEN [s EXCEPT !.display_buffer[grid] = VFD_BLANK] ELSE s,
                  str, i + 1, U8(grid + 1), idx \cup {grid})
         ELSE write_string_loop_le9(s, str, i + 1, grid, idx)

\* Variant of write_string_loop: '.' marks the cell at the cursor, not the
\* one before it
RECURSIVE write_string_loop_dot_at_cursor(_, _, _, _, _)
write_string_loop_dot_at_cursor(s, str, i, grid, idx) ==
    IF ~(i <= Len(str) /\ grid < 9)
    THEN [st |-> s, ret |-> VFD_OK, ev |-> <<>>, idx |-> idx]
    ELSE LET c == str[i] IN
         IF c >= CH_0 /\ c <= CH_9
         THEN LET r == vfd_write_digit(s, grid, U8(c - CH_0))
              IN  IF r.ret # VFD_OK
                  THEN [st |-> r.st, ret |-> r.ret, ev |-> <<>>, idx |-> idx \cup r.idx]
                  ELSE write_string_loop_dot_at_cursor(r.st, str, i + 1, U8(grid + 1),
                                                       idx \cup r.idx)
         ELSE IF c = CH_DASH
         THEN write_string_loop_dot_at_cursor(
                  [s EXCEPT !.display_buffer[grid] = VFD_SYMBOL_DASH],
                  str, i + 1, U8(grid + 1), idx \cup {grid})
         ELSE IF c = CH_DOT
         THEN IF grid > 0
              THEN write_string_loop_dot_at_cursor(
                       [s EXCEPT !.display_buffer[grid] =
                                     BitOr(s.display_buffer[grid], VFD_SYMBOL_DOT)],
                       str, i + 1, grid, idx \cup {grid})
              ELSE write_string_loop_dot_at_cursor(s, str, i + 1, grid, idx)
         ELSE IF c = CH_SPACE
         THEN write_string_loop_dot_at_cursor(
                  [s EXCEPT !.display_buffer[grid] = VFD_BLANK],
                  str, i + 1, U8(grid + 1), idx \cup {grid})
         ELSE write_string_loop_dot_at_cursor(s, str, i + 1, grid, idx)

\* One pass of the for loop: i is the 1-based position in str, grid the cursor
RECURSIVE write_string_loop(_, _, _, _, _)
write_string_loop(s, str, i, grid, idx) ==
    IF ~(i <= Len(str) /\ grid < 9)
    THEN [st |-> s, ret |-> VFD_OK, ev |-> <<>>, idx |-> idx]
    ELSE LET c == str[i] IN
         IF c >= CH_0 /\ c <= CH_9
         THEN LET r == vfd_write_digit(s, grid, U8(c - CH_0))
              IN  IF r.ret # VFD_OK
                  THEN [st |-> r.st, ret |-> r.ret, ev |-> <<>>, idx |-> idx \cup r.idx]
                  ELSE write_string_loop(r.st, str, i + 1, U8(grid + 1), idx \cup r.idx)
         ELSE IF c = CH_DASH
         THEN write_string_loop([s EXCEPT !.display_buffer[grid] = VFD_SYMBOL_DASH],
                                str, i + 1, U8(grid + 1), idx \cup {grid})
         ELSE IF c = CH_DOT
         THEN IF grid > 0
              THEN write_string_loop(
                       [s EXCEPT !.display_buffer[grid - 1] =
                                     BitOr(s.display_buffer[grid - 1], VFD_SYMBOL_DOT)],
                       str, i + 1, grid, idx \cup {grid - 1})
              ELSE write_string_loop(s, str, i + 1, grid, idx)
         ELSE IF c = CH_SPACE
         THEN write_string_loop([s EXCEPT !.display_buffer[grid] = VFD_BLANK],
                                str, i + 1, U8(grid + 1), idx \cup {grid})
         ELSE write_string_loop(s, str, i + 1, grid, idx)

\* Variant of vfd_write_string: the buffer is not cleared first
vfd_write_string_no_clear(s, str) ==
    IF ~s.initialized
    THEN [st |-> s, ret |-> VFD_ERR_NOT_INITIALIZED, ev |-> <<>>, idx |-> {}]
    ELSE IF str.null
    THEN [st |-> s, ret |-> VFD_ERR_INVALID_PARAM, ev |-> <<>>, idx |-> {}]
    ELSE write_string_loop(s, str.v, 1, 0, {})

\* Variant of vfd_write_string: the buffer is cleared before str is tested
vfd_write_string_clear_first(s, str) ==
    IF ~s.initialized
    THEN [st |-> s, ret |-> VFD_ERR_NOT_INITIALIZED, ev |-> <<>>, idx |-> {}]
    ELSE IF str.null
    THEN [st |-> vfd_clear(s).st, ret |-> VFD_ERR_INVALID_PARAM, ev |-> <<>>,
          idx |-> 0..8]
    ELSE write_string_loop(vfd_clear(s).st, str.v, 1, 0, 0..8)

vfd_write_string(s, str) ==
    IF ~s.initialized
    THEN [st |-> s, ret |-> VFD_ERR_NOT_INITIALIZED, ev |-> <<>>, idx |-> {}]
    ELSE IF str.null
    THEN [st |-> s, ret |-> VFD_ERR_INVALID_PARAM, ev |-> <<>>, idx |-> {}]
    ELSE write_string_loop(vfd_clear(s).st, str.v, 1, 0, 0..8)

---------------------------------------------------------------------------
(* Error descriptions *)

error_messages ==
    <<"Operation successful",
      "Invalid parameter provided",
      "VFD not initialized",
      "Grid index out of range",
      "Segment value out of range",
      "Hardware initialization failed">>

\* Variant of vfd_strerror: the last entry of the table is out of reach
vfd_strerror_lt5(error) ==
    IF error >= 0 /\ error < 5 THEN error_messages[error + 1] ELSE "Unknown error"

vfd_strerror(error) ==
    IF error >= 0 /\ error < 6 THEN error_messages[error + 1] ELSE "Unknown error"

---------------------------------------------------------------------------
(* Arguments the caller supplies *)

\* A configuration other than the default one
custom_config ==
    [spi_baudrate |-> 1000000, pin_spi_tx |-> 15, pin_spi_clk |-> 14,
     pin_latch |-> 12, refresh_interval_us |-> 1000]

\* What spi_init may report: failure (0) or the rate it achieved
SpiInitResults == {0, 1953125}

\* vfd_init's argument, with what spi_init would report
InitArgs ==
    {<<config, actual>> : config \in {NullPtr, Ptr(custom_config)},
                          actual \in SpiInitResults}
    \cup {<<Ptr([custom_config EXCEPT !.spi_baudrate = 0]), 1953125>>,
          <<Ptr([vfd_default_config EXCEPT !.refresh_interval_us = 0]), 1953125>>}

Pins == {10, 11, 12, 13, 14, 15}
Bytes == 0..255
GridArgs == {0, 8, 9}
SegArgs == {VFD_DIGIT_9, 255}
DigitArgs == {9, 10}
CommandArgs == {NullPtr} \cup {Ptr(c) : c \in {0, 7, 8}}
ReadArgs ==
    {<<grid, Ptr(0)>> : grid \in GridArgs} \cup {<<0, NullPtr>>}

\* "", "1.2", "123456789X"
StringArgs ==
    {NullPtr, Ptr(<<>>), Ptr(<<49, 46, 50>>),
     Ptr(<<49, 50, 51, 52, 53, 54, 55, 56, 57, 88>>)}

---------------------------------------------------------------------------
(* State machine *)

gpio_reset == [func |-> "NULL", out_dir |-> FALSE, level |-> 0]

\* No vfd_refresh is in progress.  Of a vfd_refresh in progress: pc is the
\* statement it is at, grid its loop variable, segments and combined_data
\* the argument and the local of _write_vfd_raw; irqs counts the interrupts
\* taken so far, interrupts those taken during this sweep, and held[g] is
\* the set of patterns cell g has held since this sweep began
NotRunning ==
    [pc |-> "idle", grid |-> 0, segments |-> 0, combined_data |-> 0,
     irqs |-> 0, interrupts |-> 0, held |-> [g \in 0..8 |-> {}]]

\* The program before any call
Init ==
    /\ g_vfd_state = g_vfd_state_init
    /\ gpio = [p \in Pins |-> gpio_reset]
    /\ spi_enabled = FALSE
    /\ handle = NullPtr
    /\ op = [name |-> "start"]
    /\ ret = -1
    /\ out = -1
    /\ events = <<>>
    /\ touched = {}
    /\ input = NullPtr
    /\ running = NotRunning

\* The call just made behaved as r says: it left the driver in r.st, made
\* the transport calls r.ev and returned r.ret
Returned(r, outv, h) ==
    /\ g_vfd_state' = r.st
    /\ LET hw == HwReplay([gpio |-> gpio, spi_enabled |-> spi_enabled], r.ev)
       IN  gpio' = hw.gpio /\ spi_enabled' = hw.spi_enabled
    /\ ret' = r.ret
    /\ out' = outv
    /\ events' = r.ev
    /\ touched' = r.idx
    /\ handle' = h
    /\ input' = input
    /\ running' = running

\* A call that returns no vfd_error_t and leaves the driver alone
NoEffect == [st |-> g_vfd_state, ret |-> -1, ev |-> <<>>, idx |-> {}]

Call_vfd_init(config, actual_baudrate) ==
    /\ op' = [name |-> "vfd_init", config |-> config,
              actual_baudrate |-> actual_baudrate]
    /\ Returned(vfd_init(g_vfd_state, config, actual_baudrate), -1, handle)

Call_vfd_is_initialized ==
    /\ op' = [name |-> "vfd_is_initialized"]
    /\ Returned(NoEffect, IF vfd_is_initialized(g_vfd_state) THEN 1 ELSE 0, handle)

Call_vfd_deinit ==
    /\ op' = [name |-> "vfd_deinit"]
    /\ Returned(vfd_deinit(g_vfd_state), -1, handle)

Call_vfd_write_segments(grid, segments) ==
    /\ op' = [name |-> "vfd_write_segments", grid |-> grid, segments |-> segments]
    /\ Returned(vfd_write_segments(g_vfd_state, grid, segments), -1, handle)

Call_vfd_read_segments(grid, segments) ==
    /\ op' = [name |-> "vfd_read_segments", grid |-> grid, segments |-> segments]
    /\ LET r == vfd_read_segments(g_vfd_state, grid, segments)
       IN  Returned(r, r.val, handle)

Call_vfd_write_digit(grid, digit) ==
    /\ op' = [name |-> "vfd_write_digit", grid |-> grid, digit |-> digit]
    /\ Returned(vfd_write_digit(g_vfd_state, grid, digit), -1, handle)

Call_vfd_clear ==
    /\ op' = [name |-> "vfd_clear"]
    /\ Returned(vfd_clear(g_vfd_state), -1, handle)

Call_vfd_refresh ==
    /\ op' = [name |-> "vfd_refresh"]
    /\ Returned(vfd_refresh(g_vfd_state), -1, handle)

Call_vfd_write_string(str) ==
    /\ op' = [name |-> "vfd_write_string", str |-> str]
    /\ Returned(vfd_write_string(g_vfd_state, str), -1, handle)

Call_vfd_get_buffer ==
    /\ op' = [name |-> "vfd_get_buffer"]
    /\ Returned(NoEffect, -1, vfd_get_buffer(g_vfd_state))

\* The caller stores through the pointer vfd_get_buffer gave it
StoreViaHandle(grid, segments) ==
    /\ ~handle.null
    /\ op' = [name |-> "store_via_handle", grid |-> grid, segments |-> segments]
    /\ Returned([NoEffect EXCEPT !.st.display_buffer[grid] = segments,
                                 !.idx = {grid}],
                -1, handle)

Call_vfd_fill_buffer(segments) ==
    /\ op' = [name |-> "vfd_fill_buffer", segments |-> segments]
    /\ Returned(vfd_fill_buffer(g_vfd_state, segments), -1, handle)

Call_vfd_send_control_command(cmd) ==
    /\ op' = [name |-> "vfd_send_control_command", cmd |-> cmd]
    /\ Returned(vfd_send_control_command(g_vfd_state, cmd), -1, handle)

Next ==
    \/ \E a \in InitArgs : Call_vfd_init(a[1], a[2])
    \/ Call_vfd_is_initialized
    \/ Call_vfd_deinit
    \/ \E grid \in GridArgs, segments \in SegArgs : Call_vfd_write_segments(grid, segments)
    \/ \E a \in ReadArgs : Call_vfd_read_segments(a[1], a[2])
    \/ \E grid \in GridArgs, digit \in DigitArgs : Call_vfd_write_digit(grid, digit)
    \/ Call_vfd_clear
    \/ Call_vfd_refresh
    \/ \E str \in StringArgs : Call_vfd_write_string(str)
    \/ Call_vfd_get_buffer
    \/ \E grid \in {0, 8} : StoreViaHandle(grid, 255)
    \/ Call_vfd_fill_buffer(255)
    \/ \E cmd \in CommandArgs : Call_vfd_send_control_command(cmd)

Spec == Init /\ [][Next]_vars

---------------------------------------------------------------------------
(* The packer over its whole input range: the driver has been initialized  *)
(* with the default configuration and one cell written, for every grid and *)
(* every 8-bit pattern; then the display is refreshed and commands sent.   *)

DriverAfterInit == vfd_init(g_vfd_state_init, NullPtr, 1953125)

InitPack ==
    \E grid \in 0..8, segments \in Bytes :
        LET r == vfd_write_segments(DriverAfterInit.st, grid, segments)
            hw == HwReplay([gpio |-> [p \in Pins |-> gpio_reset],
                            spi_enabled |-> FALSE], DriverAfterInit.ev)
        IN  /\ g_vfd_state = r.st
            /\ gpio = hw.gpio
            /\ spi_enabled = hw.spi_enabled
            /\ handle = NullPtr
            /\ op = [name |-> "vfd_write_segments", grid |-> grid,
                     segments |-> segments]
            /\ ret = r.ret
            /\ out = -1
            /\ events = r.ev
            /\ touched = r.idx
            /\ input = <<grid, segments>>
            /\ running = NotRunning

NextPack ==
    \/ Call_vfd_refresh
    \/ \E c \in 0..7 : Call_vfd_send_control_command(Ptr(c))

SpecPack == InitPack /\ [][NextPack]_vars

---------------------------------------------------------------------------
(* vfd_write_string over a bounded set of strings: up to MaxPad digits     *)
(* "1234567891..." followed by up to MaxStrLen characters of StrChars.     *)
(* The driver has been initialized and its buffer filled with a pattern.   *)

MaxPad == 9
MaxStrLen == 3

\* '0', '9', '-', '.', ' ' and ':' (the code after '9', not in the language)
StrChars == {CH_0, CH_9, CH_DASH, CH_DOT, CH_SPACE, 58}

Pad(k) == [i \in 1..k |-> 49 + ((i - 1) % 9)]

StrInputs ==
    {Pad(k) \o t : k \in 0..MaxPad,
                   t \in UNION {[1..n -> StrChars] : n \in 0..MaxStrLen}}

InitStr ==
    \E str \in StrInputs, fill \in {VFD_BLANK, 255} :
        LET r == vfd_fill_buffer(DriverAfterInit.st, fill)
            hw == HwReplay([gpio |-> [p \in Pins |-> gpio_reset],
                            spi_enabled |-> FALSE], DriverAfterInit.ev)
        IN  /\ g_vfd_state = r.st
            /\ gpio = hw.gpio
            /\ spi_enabled = hw.spi_enabled
            /\ handle = NullPtr
            /\ op = [name |-> "vfd_fill_buffer", segments |-> fill]
            /\ ret = r.ret
            /\ out = -1
            /\ events = r.ev
            /\ touched = r.idx
            /\ input = Ptr(str)
            /\ running = NotRunning

\* The caller passes the drawn string
WriteInputString ==
    /\ ~input.null
    /\ Call_vfd_write_string(input)

NextStr == WriteInputString \/ Call_vfd_refresh

SpecStr == InitStr /\ [][NextStr]_vars

---------------------------------------------------------------------------
(* The single-cell operations over their whole argument range.  The driver *)
(* has been initialized and "123456789" written, so that the 9 cells hold  *)
(* 9 different patterns; then a grid and a byte are drawn and passed to    *)
(* vfd_write_segments, vfd_write_digit and vfd_read_segments.              *)

\* The arguments grid and segments / digit are uint8_t.  Every byte for the
\* grids 0..8; for the grids 9..255 the bytes at the edges of the digit range
CellInputs ==
    ((0..8) \X Bytes) \cup ((9..255) \X {0, 9, 10, 255})

InitCell ==
    \E a \in CellInputs :
        LET r == vfd_write_string(DriverAfterInit.st, Ptr(Pad(9)))
            hw == HwReplay([gpio |-> [p \in Pins |-> gpio_reset],
                            spi_enabled |-> FALSE], DriverAfterInit.ev)
        IN  /\ g_vfd_state = r.st
            /\ gpio = hw.gpio
            /\ spi_enabled = hw.spi_enabled
            /\ handle = NullPtr
            /\ op = [name |-> "vfd_write_string", str |-> Ptr(Pad(9))]
            /\ ret = r.ret
            /\ out = -1
            /\ events = r.ev
            /\ touched = r.idx
            /\ input = a
            /\ running = NotRunning

\* The caller passes the drawn grid and byte
WriteInputSegments ==
    /\ input \in CellInputs
    /\ Call_vfd_write_segments(input[1], input[2])

WriteInputDigit ==
    /\ input \in CellInputs
    /\ Call_vfd_write_digit(input[1], input[2])

ReadInputCell ==
    /\ input \in CellInputs
    /\ Call_vfd_read_segments(input[1], Ptr(0))

NextCell == WriteInputSegments \/ WriteInputDigit \/ ReadInputCell

SpecCell == InitCell /\ [][NextCell]_vars

(* The whole-buffer operations over every byte: from the same states,      *)
(* vfd_fill_buffer with the drawn byte, vfd_clear, and vfd_read_segments   *)
(* of the drawn grid.                                                      *)
FillInput ==
    /\ input \in CellInputs
    /\ Call_vfd_fill_buffer(input[2])

NextFill == FillInput \/ Call_vfd_clear \/ ReadInputCell

SpecFill == InitCell /\ [][NextFill]_vars

(* vfd_send_control_command over every value of the uint8_t command       *)
(* field, and with no command object, from the same states.               *)
SendInputCommand ==
    /\ input \in CellInputs
    /\ Call_vfd_send_control_command(Ptr(input[2]))

SendNullCommand ==
    /\ input \in CellInputs
    /\ Call_vfd_send_control_command(NullPtr)

NextCmd == SendInputCommand \/ SendNullCommand

SpecCmd == InitCell /\ [][NextCmd]_vars

---------------------------------------------------------------------------
(* The description of an error code, asked for in any state of the driver *)

\* vfd_strerror's argument: the six codes and values that are none of them
StrerrorArgs == -2..8

Call_vfd_strerror(error) ==
    /\ op' = [name |-> "vfd_strerror", error |-> error]
    /\ Returned(NoEffect, vfd_strerror(error), handle)

NextErr ==
    \/ \E error \in StrerrorArgs : Call_vfd_strerror(error)
    \/ \E a \in InitArgs : Call_vfd_init(a[1], a[2])
    \/ Call_vfd_deinit
    \/ \E grid \in GridArgs, segments \in SegArgs : Call_vfd_write_segments(grid, segments)

SpecErr == Init /\ [][NextErr]_vars

---------------------------------------------------------------------------
(* The standalone program the library was made from (main.c): its tables   *)
(* and its transmit routine, next to the library's for the same grid and   *)
(* symbol                                                                  *)

SPI_L == 13

segment_control(digit) ==
    <<63, 6, 91, 79, 102, 109, 125, 7, 127, 111, 128, 64, 0>>[digit + 1]

grid_control(grid) == <<256, 128, 64, 32, 16, 8, 4, 2, 1>>[grid + 1]

\* write_vfd(digit, grid): the globals combined_data and data it leaves, and
\* the transport calls it makes
write_vfd(digit, grid) ==
    LET cd == BitOr(Shl32(grid_control(grid), 8), segment_control(digit))
        data == [k \in 0..2 |-> Low8(Shr(cd, 16 - 8 * k))]
    IN  [combined_data |-> cd, data |-> data,
         ev |-> <<SpiWrite(data[0], data[1], data[2]),
                  GpioPut(SPI_L, 1), SleepUs(1), GpioPut(SPI_L, 0)>>]

\* A grid and a symbol index are drawn; the library driver, initialized with
\* the default configuration, holds its own pattern for the symbol at the grid
InitLegacy ==
    \E grid \in 0..8, digit \in 0..12 :
        LET r == vfd_write_segments(DriverAfterInit.st, grid, DIGIT_PATTERNS(digit))
            hw == HwReplay([gpio |-> [p \in Pins |-> gpio_reset],
                            spi_enabled |-> FALSE], DriverAfterInit.ev)
        IN  /\ g_vfd_state = r.st
            /\ gpio = hw.gpio
            /\ spi_enabled = hw.spi_enabled
            /\ handle = NullPtr
            /\ op = [name |-> "vfd_write_segments", grid |-> grid,
                     segments |-> DIGIT_PATTERNS(digit)]
            /\ ret = r.ret
            /\ out = -1
            /\ events = r.ev
            /\ touched = r.idx
            /\ input = <<grid, digit>>
            /\ running = NotRunning

\* The standalone program's routine is run for the drawn symbol and grid
Legacy_write_vfd ==
    /\ op' = [name |-> "write_vfd", digit |-> input[2], grid |-> input[1]]
    /\ LET r == write_vfd(input[2], input[1])
       IN  Returned([NoEffect EXCEPT !.ev = r.ev], r.data, handle)

NextLegacy == Legacy_write_vfd \/ Call_vfd_refresh

SpecLegacy == InitLegacy /\ [][NextLegacy]_vars

---------------------------------------------------------------------------
(* vfd_refresh followed statement by statement, with an interrupt handler  *)
(* that calls into the driver.  The handler runs to completion between two *)
(* statements of the interrupted vfd_refresh.  events is then the sequence *)
(* of transport calls since the sweep began, the handler's included.       *)

\* Interrupts taken in one run: those that store a pattern, and those that
\* send a command
MaxIrq == 2
MaxCmdIrq == 1

\* The command the handler sends
IrqCommands == {5}

\* What the handler stores: a grid and a pattern
MutatorArgs == {<<0, 255>>, <<4, 1>>, <<4, 255>>, <<8, VFD_BLANK>>}

\* The driver initialized with the default configuration, showing "123456789"
InitSweep ==
    LET r == vfd_write_string(DriverAfterInit.st, Ptr(Pad(9)))
        hw == HwReplay([gpio |-> [p \in Pins |-> gpio_reset],
                        spi_enabled |-> FALSE], DriverAfterInit.ev)
    IN  /\ g_vfd_state = r.st
        /\ gpio = hw.gpio
        /\ spi_enabled = hw.spi_enabled
        /\ handle = NullPtr
        /\ op = [name |-> "vfd_write_string", str |-> Ptr(Pad(9))]
        /\ ret = r.ret
        /\ out = -1
        /\ events = r.ev
        /\ touched = r.idx
        /\ input = NullPtr
        /\ running = NotRunning

\* The transport calls ev are made, in order
Transport(ev) ==
    /\ LET hw == HwReplay([gpio |-> gpio, spi_enabled |-> spi_enabled], ev)
       IN  gpio' = hw.gpio /\ spi_enabled' = hw.spi_enabled
    /\ events' = events \o ev

\* Variant of next_grid: the index wraps to 0 after the last grid
next_grid_wrap(grid) == (grid + 1) % 9

\* Variant of next_grid: every other grid
next_grid_by2(grid) == U8(grid + 2)

\* grid++ of the for loop
next_grid(grid) == U8(grid + 1)

\* vfd_refresh is called: the initialized check
Refresh_enter ==
    /\ running.pc = "idle"
    /\ op' = [name |-> "vfd_refresh"]
    /\ IF ~g_vfd_state.initialized
       THEN /\ ret' = VFD_ERR_NOT_INITIALIZED
            /\ running' = running
       ELSE /\ ret' = -1
            /\ running' = [running EXCEPT
                              !.pc = "for_test", !.grid = 0, !.interrupts = 0,
                              !.held = [g \in 0..8 |-> {g_vfd_state.display_buffer[g]}]]
    /\ events' = <<>>
    /\ touched' = {}
    /\ UNCHANGED <<g_vfd_state, gpio, spi_enabled, handle, out, input>>

\* grid < 9: either the arguments of _write_vfd_raw are evaluated and it is
\* called, or the loop ends and vfd_refresh returns VFD_OK
Refresh_for_test ==
    /\ running.pc = "for_test"
    /\ IF running.grid < 9
       THEN /\ running' = [running EXCEPT
                              !.pc = "raw_check",
                              !.segments = g_vfd_state.display_buffer[running.grid]]
            /\ touched' = touched \cup {running.grid}
            /\ ret' = ret
       ELSE /\ running' = [running EXCEPT !.pc = "idle"]
            /\ touched' = touched
            /\ ret' = VFD_OK
    /\ UNCHANGED <<g_vfd_state, gpio, spi_enabled, handle, op, out, events, input>>

\* _write_vfd_raw: the grid check and the local combined_data
Raw_check ==
    /\ running.pc = "raw_check"
    /\ running' = IF ~_is_valid_grid(running.grid)
                  THEN [running EXCEPT !.pc = "settle"]
                  ELSE [running EXCEPT
                           !.pc = "raw_store0",
                           !.combined_data = combined_data(running.grid,
                                                           running.segments)]
    /\ UNCHANGED <<g_vfd_state, gpio, spi_enabled, handle, op, ret, out, events,
                   touched, input>>

StorePc == <<"raw_store0", "raw_store1", "raw_store2", "raw_spi_write">>

\* _write_vfd_raw: g_vfd_state.spi_data[k] = byte k of combined_data
Raw_store(k) ==
    /\ running.pc = StorePc[k + 1]
    /\ g_vfd_state' = [g_vfd_state EXCEPT
                          !.spi_data[k] = raw_spi_data(running.combined_data)[k]]
    /\ running' = [running EXCEPT !.pc = StorePc[k + 2]]
    /\ UNCHANGED <<gpio, spi_enabled, handle, op, ret, out, events, touched, input>>

\* _write_vfd_raw: spi_write_blocking(spi_port, g_vfd_state.spi_data, 3)
Raw_spi_write ==
    /\ running.pc = "raw_spi_write"
    /\ Transport(<<SpiWrite(g_vfd_state.spi_data[0], g_vfd_state.spi_data[1],
                            g_vfd_state.spi_data[2])>>)
    /\ running' = [running EXCEPT !.pc = "raw_latch_high"]
    /\ UNCHANGED <<g_vfd_state, handle, op, ret, out, touched, input>>

Raw_latch_high ==
    /\ running.pc = "raw_latch_high"
    /\ Transport(<<GpioPut(g_vfd_state.config.pin_latch, 1)>>)
    /\ running' = [running EXCEPT !.pc = "raw_hold"]
    /\ UNCHANGED <<g_vfd_state, handle, op, ret, out, touched, input>>

Raw_hold ==
    /\ running.pc = "raw_hold"
    /\ Transport(<<SleepUs(1)>>)
    /\ running' = [running EXCEPT !.pc = "raw_latch_low"]
    /\ UNCHANGED <<g_vfd_state, handle, op, ret, out, touched, input>>

Raw_latch_low ==
    /\ running.pc = "raw_latch_low"
    /\ Transport(<<GpioPut(g_vfd_state.config.pin_latch, 0)>>)
    /\ running' = [running EXCEPT !.pc = "settle"]
    /\ UNCHANGED <<g_vfd_state, handle, op, ret, out, touched, input>>

\* sleep_us(refresh_interval_us) and grid++
Refresh_settle ==
    /\ running.pc = "settle"
    /\ Transport(<<SleepUs(g_vfd_state.config.refresh_interval_us)>>)
    /\ running' = [running EXCEPT !.pc = "for_test", !.grid = next_grid(running.grid)]
    /\ UNCHANGED <<g_vfd_state, handle, op, ret, out, touched, input>>

SweepSteps ==
    \/ Refresh_enter
    \/ Refresh_for_test
    \/ Raw_check
    \/ \E k \in 0..2 : Raw_store(k)
    \/ Raw_spi_write
    \/ Raw_latch_high
    \/ Raw_hold
    \/ Raw_latch_low
    \/ Refresh_settle

\* The handler's call has behaved as r says, while vfd_refresh was suspended
Interrupted(r, max) ==
    /\ running.pc # "idle"
    /\ running.irqs < max
    /\ g_vfd_state' = r.st
    /\ Transport(r.ev)
    /\ out' = r.ret
    /\ running' = [running EXCEPT
                      !.irqs = @ + 1, !.interrupts = @ + 1,
                      !.held = [g \in 0..8 |-> @[g] \cup {r.st.display_buffer[g]}]]
    /\ UNCHANGED <<handle, op, ret, touched, input>>

\* The handler calls vfd_send_control_command
Irq_send_control_command(cmd) ==
    /\ ~cmd.null
    /\ Interrupted(vfd_send_control_command(g_vfd_state, cmd), MaxCmdIrq)

\* The handler calls vfd_write_segments
Irq_write_segments(grid, segments) ==
    /\ grid \in 0..255
    /\ Interrupted(vfd_write_segments(g_vfd_state, grid, segments), MaxIrq)

NextIrqCmd ==
    \/ SweepSteps
    \/ \E c \in IrqCommands : Irq_send_control_command(Ptr(c))

SpecIrqCmd == InitSweep /\ [][NextIrqCmd]_vars

NextIrqStore ==
    \/ SweepSteps
    \/ \E a \in MutatorArgs : Irq_write_segments(a[1], a[2])

SpecIrqStore == InitSweep /\ [][NextIrqStore]_vars

\* The caller's loop: between two calls of vfd_refresh it may store a pattern
Loop_write_segments(grid, segments) ==
    /\ running.pc = "idle"
    /\ Call_vfd_write_segments(grid, segments)

NextLoop ==
    \/ SweepSteps
    \/ \E a \in MutatorArgs : Loop_write_segments(a[1], a[2])

\* The loop never stops calling vfd_refresh, and every statement of
\* vfd_refresh and _write_vfd_raw completes (spi_write_blocking and sleep_us
\* return)
SpecLoop == InitSweep /\ [][NextLoop]_vars /\ WF_vars(SweepSteps)

---------------------------------------------------------------------------
(* What an observer of the transport sees *)

IsSpiWrite(e) == e[1] = "spi_write_blocking"

\* The serial writes among the transport calls, in order
SpiFrames(ev) == SelectSeq(ev, IsSpiWrite)

\* The 24-bit value of a 3-byte serial write, first byte most significant
FrameValue(e) == e[2] * 65536 + e[3] * 256 + e[4]

\* The fields of the 20-bit control word [CMD 3b][GRID 9b][SEGMENTS 8b]
CmdField(v) == (v \div 131072) % 8
GridField(v) == (v \div 256) % 512
SegField(v) == v % 256

\* The one-hot mask of grid g: bit 8 for grid 0 down to bit 0 for grid 8
OneHot(g) == 2^(8 - g)

\* (command << 17) | (grid_mask << 8) | segments, the fields being disjoint
ControlWord(command, grid_mask, segments) ==
    command * 131072 + grid_mask * 256 + segments

RECURSIVE SumSleep(_)
SumSleep(ev) ==
    IF ev = <<>> THEN 0
    ELSE (IF Head(ev)[1] = "sleep_us" THEN Head(ev)[2] ELSE 0) + SumSleep(Tail(ev))

IsSleep(e) == e[1] = "sleep_us"

RefreshDone == op.name = "vfd_refresh" /\ ret = VFD_OK

---------------------------------------------------------------------------
(* C1: with the driver initialized, one call to vfd_refresh returns VFD_OK  *)
(* and makes exactly 9 serial writes; the write for grid g, g = 0..8 in     *)
(* increasing order, carries command 0, the one-hot mask of g and the       *)
(* segment byte display_buffer[g], blank cells included.                    *)
C1_RefreshSweep ==
    (op.name = "vfd_refresh" /\ g_vfd_state.initialized) =>
        /\ ret = VFD_OK
        /\ LET f == SpiFrames(events)
           IN  /\ Len(f) = 9
               /\ \A g \in 0..8 :
                      LET v == FrameValue(f[g + 1])
                      IN  /\ CmdField(v) = 0
                          /\ GridField(v) = OneHot(g)
                          /\ SegField(v) = g_vfd_state.display_buffer[g]

\* A refresh of a buffer that has a lit cell followed by blank cells
C1_Witness ==
    /\ RefreshDone
    /\ g_vfd_state.display_buffer[0] # VFD_BLANK
    /\ g_vfd_state.display_buffer[2] = VFD_BLANK
    /\ g_vfd_state.display_buffer[8] = VFD_BLANK
    /\ Len(SpiFrames(events)) = 9

(* C2: every serial write is immediately followed by latch high, a 1 us     *)
(* hold and latch low; a refresh is 9 such transmissions, each followed by  *)
(* one settle delay of refresh_interval_us (9 in all, 13500 us at the       *)
(* default); a command is one transmission with no settle delay.            *)
C2_TransmissionShape ==
    LET latch == g_vfd_state.config.pin_latch
        pulse == <<GpioPut(latch, 1), SleepUs(1), GpioPut(latch, 0)>>
        settle == g_vfd_state.config.refresh_interval_us
    IN  /\ \A i \in 1..Len(events) :
               IsSpiWrite(events[i]) =>
                   /\ i + 3 <= Len(events)
                   /\ SubSeq(events, i + 1, i + 3) = pulse
        /\ RefreshDone =>
               /\ Len(events) = 45
               /\ \A k \in 0..8 :
                      /\ IsSpiWrite(events[5 * k + 1])
                      /\ events[5 * k + 5] = SleepUs(settle)
               /\ Len(SelectSeq(events, IsSleep)) = 18
               /\ SumSleep(events) = 9 + 9 * settle
               /\ (g_vfd_state.config = vfd_default_config
                      => SumSleep(events) - 9 = 13500)
        /\ (op.name = "vfd_send_control_command" /\ ret = VFD_OK) =>
               /\ Len(events) = 4
               /\ IsSpiWrite(events[1])

\* A refresh under the default configuration has run
C2_Witness ==
    /\ RefreshDone
    /\ g_vfd_state.config = vfd_default_config
    /\ Len(events) = 45
    /\ events[5] = SleepUs(1500)

\* The words the last call should have put on the wire, in order
ExpectedWords ==
    IF RefreshDone
    THEN [k \in 1..9 |-> ControlWord(0, OneHot(k - 1), g_vfd_state.display_buffer[k - 1])]
    ELSE IF op.name = "vfd_send_control_command" /\ ret = VFD_OK
    THEN <<ControlWord(op.cmd.v, 0, 0)>>
    ELSE <<>>

(* C3: read most significant byte first, the 3 bytes of every transmitted   *)
(* frame form a 24-bit value whose top 4 bits are zero and whose low 20     *)
(* bits are (command << 17) | (grid_mask << 8) | segments.                  *)
C3_FrameLayout ==
    LET f == SpiFrames(events)
    IN  /\ Len(f) = Len(ExpectedWords)
        /\ \A i \in 1..Len(f) :
               /\ FrameValue(f[i]) \div 1048576 = 0
               /\ FrameValue(f[i]) % 1048576 = ExpectedWords[i]

\* A refresh has sent the frame of a cell with all 8 segments lit
C3_Witness ==
    /\ RefreshDone
    /\ input[2] = 255
    /\ FrameValue(SpiFrames(events)[input[1] + 1]) % 1048576
           = ControlWord(0, OneHot(input[1]), 255)

(* C4, as stated: the word is shifted left by 4 before it is split, so the  *)
(* 20 significant bits are bits 23..4 of the frame and the low 4 bits of    *)
(* byte 2 are zero padding.                                                 *)
C4_ShiftedBy4 ==
    LET f == SpiFrames(events)
    IN  \A i \in 1..Len(f) :
            /\ i <= Len(ExpectedWords)
            /\ FrameValue(f[i]) = ExpectedWords[i] * 16
            /\ f[i][4] % 16 = 0

(* C4, amended: the word is split into bytes without any shift, so the 20   *)
(* significant bits are bits 19..0 of the frame and the high 4 bits of      *)
(* byte 0 are the zero padding.                                             *)
C4_NotShifted ==
    LET f == SpiFrames(events)
    IN  \A i \in 1..Len(f) :
            /\ i <= Len(ExpectedWords)
            /\ f[i][2] = ExpectedWords[i] \div 65536
            /\ f[i][2] \div 16 = 0
            /\ f[i][3] = (ExpectedWords[i] \div 256) % 256
            /\ f[i][4] = ExpectedWords[i] % 256

\* A frame whose byte 2 carries payload in its low 4 bits
C4_Witness ==
    /\ RefreshDone
    /\ input[2] % 16 # 0
    /\ SpiFrames(events)[input[1] + 1][4] = input[2]

\* The position of the single set bit of m, or -1 when m is not one bit
RECURSIVE BitPos(_)
BitPos(m) ==
    IF m = 1 THEN 0
    ELSE IF m <= 0 \/ m % 2 = 1 THEN -1
    ELSE LET p == BitPos(m \div 2) IN IF p < 0 THEN -1 ELSE p + 1

\* Bit-unpacking of a frame: the grid addressed (-1 if none or several) and
\* the segment pattern
Unpack(e) ==
    LET p == BitPos(GridField(FrameValue(e)))
    IN  [grid |-> IF p < 0 THEN -1 ELSE 8 - p,
         segments |-> SegField(FrameValue(e))]

\* The 3 bytes the driver sends for a grid and a pattern
FrameBytes(grid, segments) ==
    LET d == raw_spi_data(combined_data(grid, segments)) IN <<d[0], d[1], d[2]>>

\* Distinct (grid, pattern) pairs are sent as distinct frames
FramesDistinct ==
    Cardinality({FrameBytes(x[1], x[2]) : x \in (0..8) \X Bytes})
        = Cardinality((0..8) \X Bytes)

(* C5: unpacking the frame sent for (command 0, grid g, pattern P) gives    *)
(* back exactly g and P, for every g in 0..8 and every 8-bit P; no other    *)
(* (grid, pattern) pair is sent as the same 3 bytes.                        *)
C5_RoundTrip ==
    RefreshDone =>
        LET f == SpiFrames(events)
            g == input[1]
        IN  /\ \A k \in 0..8 :
                   Unpack(f[k + 1]) =
                       [grid |-> k, segments |-> g_vfd_state.display_buffer[k]]
            /\ \A j, k \in 0..8 : j # k => f[j + 1] # f[k + 1]
            /\ <<f[g + 1][2], f[g + 1][3], f[g + 1][4]>> = FrameBytes(g, input[2])
            /\ FramesDistinct

\* The frame for a cell holding a pattern with both end bits set was unpacked
C5_Witness ==
    /\ RefreshDone
    /\ input[2] = 129
    /\ Unpack(SpiFrames(events)[input[1] + 1]) = [grid |-> input[1], segments |-> 129]

RECURSIVE PopCount(_)
PopCount(m) == IF m = 0 THEN 0 ELSE (m % 2) + PopCount(m \div 2)

(* C6: the grid selector maps grid g to the 9-bit mask with the single bit  *)
(* 8 - g set (grid 0 is bit 8, grid 8 is bit 0), and every frame of a       *)
(* refresh has exactly one grid bit set.                                    *)
C6_GridOneHot ==
    /\ \A g \in 0..8 :
           /\ GRID_PATTERNS(g) = 2^(8 - g)
           /\ PopCount(GRID_PATTERNS(g)) = 1
    /\ GRID_PATTERNS(0) = 256
    /\ GRID_PATTERNS(8) = 1
    /\ RefreshDone =>
           \A k \in 1..9 :
               LET m == GridField(FrameValue(SpiFrames(events)[k]))
               IN  PopCount(m) = 1 /\ m = 2^(9 - k)

\* A refresh has sent the frames of grid 0 and grid 8
C6_Witness ==
    /\ RefreshDone
    /\ GridField(FrameValue(SpiFrames(events)[1])) = 256
    /\ GridField(FrameValue(SpiFrames(events)[9])) = 1

GuardedCalls ==
    {"vfd_write_segments", "vfd_write_digit", "vfd_write_string", "vfd_fill_buffer",
     "vfd_read_segments", "vfd_refresh", "vfd_send_control_command", "vfd_deinit"}

(* C7: while the driver is not initialized, vfd_write_segments,             *)
(* vfd_write_digit, vfd_write_string, vfd_fill_buffer, vfd_read_segments,   *)
(* vfd_refresh, vfd_send_control_command and vfd_deinit return              *)
(* VFD_ERR_NOT_INITIALIZED whatever their arguments, leave the display      *)
(* buffer as it was and make no transport call.                             *)
C7_NotInitialized ==
    [][ (~g_vfd_state.initialized /\ op'.name \in GuardedCalls) =>
            /\ ret' = VFD_ERR_NOT_INITIALIZED
            /\ g_vfd_state'.display_buffer = g_vfd_state.display_buffer
            /\ events' = <<>>
            /\ gpio' = gpio
            /\ ~g_vfd_state'.initialized ]_vars

\* A refresh was refused on a driver whose init had failed or that was shut
\* down, and whose buffer was not blank
C7_Witness ==
    /\ ~g_vfd_state.initialized
    /\ op.name = "vfd_refresh"
    /\ ret = VFD_ERR_NOT_INITIALIZED
    /\ g_vfd_state.config.spi_baudrate # 0
    /\ g_vfd_state.display_buffer[0] = 255
    /\ events = <<>>

(* C8: vfd_clear requires the initialized state: on a driver that is not    *)
(* initialized it returns VFD_ERR_NOT_INITIALIZED and leaves the display    *)
(* buffer as it was; on an initialized driver it returns VFD_OK.            *)
C8_ClearRequiresInit ==
    [][ op'.name = "vfd_clear" =>
            IF g_vfd_state.initialized
            THEN ret' = VFD_OK
            ELSE /\ ret' = VFD_ERR_NOT_INITIALIZED
                 /\ g_vfd_state'.display_buffer = g_vfd_state.display_buffer ]_vars

---------------------------------------------------------------------------
(* The reference procedure for vfd_write_string *)

IsDigitChar(c) == c >= 48 /\ c <= 57

\* The characters that take a grid
TakesGrid(c) == IsDigitChar(c) \/ c = 45 \/ c = 32

\* The pattern a grid-taking character stores
CharPattern(c) ==
    IF IsDigitChar(c) THEN DIGIT_PATTERNS(c - 48)
    ELSE IF c = 45 THEN VFD_SYMBOL_DASH
    ELSE VFD_BLANK

WithDot(p) == IF p >= 128 THEN p ELSE p + 128

\* Scan str from position i with the cursor at cur, while cur < 9
RECURSIVE RefScan(_, _, _, _)
RefScan(str, i, buf, cur) ==
    IF i > Len(str) \/ cur >= 9 THEN [buf |-> buf, cur |-> cur]
    ELSE IF TakesGrid(str[i])
    THEN RefScan(str, i + 1, [buf EXCEPT ![cur] = CharPattern(str[i])], cur + 1)
    ELSE IF str[i] = 46 /\ cur > 0
    THEN RefScan(str, i + 1, [buf EXCEPT ![cur - 1] = WithDot(buf[cur - 1])], cur)
    ELSE RefScan(str, i + 1, buf, cur)

RefWriteString(str) == RefScan(str, 1, [g \in 0..8 |-> VFD_BLANK], 0)

WriteStringDone ==
    /\ op.name = "vfd_write_string"
    /\ g_vfd_state.initialized
    /\ ~op.str.null

GridCharPositions(str) == SelectSeq([i \in 1..Len(str) |-> i], LAMBDA i : TakesGrid(str[i]))

(* C10: vfd_write_string touches no buffer index outside 0..8 and returns   *)
(* VFD_OK for every string; grid g holds the pattern of the (g+1)-th        *)
(* grid-taking character for g = 0..8, the characters that come after the   *)
(* 9th grid is filled are dropped, and unused grids are blank.              *)
C10_WriteStringBounded ==
    WriteStringDone =>
        LET pos == GridCharPositions(op.str.v)
        IN  /\ ret = VFD_OK
            /\ touched \subseteq 0..8
            /\ DOMAIN g_vfd_state.display_buffer = 0..8
            /\ \A g \in 0..8 :
                   IF g < Len(pos)
                   THEN g_vfd_state.display_buffer[g] % 128
                            = CharPattern(op.str.v[pos[g + 1]])
                   ELSE g_vfd_state.display_buffer[g] = VFD_BLANK
            /\ (Len(pos) >= 9 =>
                   g_vfd_state.display_buffer =
                       RefWriteString(SubSeq(op.str.v, 1, pos[9])).buf)

\* A string with more than 9 grid-taking characters was written
C10_Witness ==
    /\ WriteStringDone
    /\ ret = VFD_OK
    /\ Len(GridCharPositions(op.str.v)) > 9
    /\ \A g \in 0..8 : g_vfd_state.display_buffer[g] = DIGIT_PATTERNS(g + 1)

\* How many of the characters str[1..i] take a grid
GridsUpTo(str, i) == Len(SelectSeq(SubSeq(str, 1, i), TakesGrid))

\* The positions of the '.' characters that come after a grid-taking
\* character which is among the first n grid-taking characters of str
DotsAfterGrid(str, n) ==
    {i \in 1..Len(str) : /\ str[i] = 46
                         /\ GridsUpTo(str, i) >= 1
                         /\ GridsUpTo(str, i) <= n}

(* C11, as stated: each '.' that comes after a grid-taking character sets   *)
(* the decimal-point bit of the grid that character was written to,         *)
(* whichever of the grids 0..8 that is, and takes no grid itself.           *)
C11_DotOnEveryGrid ==
    WriteStringDone =>
        LET str == op.str.v
            pos == GridCharPositions(str)
        IN  /\ \A i \in DotsAfterGrid(str, 9) :
                   g_vfd_state.display_buffer[GridsUpTo(str, i) - 1] >= 128
            /\ \A g \in 0..8 :
                   g < Len(pos) =>
                       g_vfd_state.display_buffer[g] % 128 = CharPattern(str[pos[g + 1]])

(* C11, amended: each '.' that comes after a grid-taking character written  *)
(* to one of the grids 0..7 sets the decimal-point bit of that grid and     *)
(* takes no grid itself; no other cell gets the bit; a '.' that comes after *)
(* the character written to grid 8 is dropped, the scan having stopped, so  *)
(* grid 8 never carries the decimal-point bit.                              *)
C11_DotOnGridsBelow8 ==
    WriteStringDone =>
        LET str == op.str.v
            pos == GridCharPositions(str)
        IN  /\ \A g \in 0..7 :
                   (g_vfd_state.display_buffer[g] >= 128)
                       <=> (\E i \in DotsAfterGrid(str, 8) : GridsUpTo(str, i) - 1 = g)
            /\ g_vfd_state.display_buffer[8] < 128
            /\ \A g \in 0..8 :
                   g < Len(pos) =>
                       g_vfd_state.display_buffer[g] % 128 = CharPattern(str[pos[g + 1]])

\* "12345678.9." was written: the '.' after grid 7 is applied, the digit
\* after it goes to grid 8, and the '.' after grid 8 is dropped
C11_Witness ==
    /\ WriteStringDone
    /\ ret = VFD_OK
    /\ op.str.v = Pad(8) \o <<46, 57, 46>>
    /\ g_vfd_state.display_buffer[7] = VFD_DIGIT_8 + 128
    /\ g_vfd_state.display_buffer[8] = VFD_DIGIT_9

---------------------------------------------------------------------------
(* The single-cell and whole-buffer operations *)

\* The call being made leaves every cell other than g as it was
OtherCellsKept(g) ==
    \A k \in 0..8 :
        k # g => g_vfd_state'.display_buffer[k] = g_vfd_state.display_buffer[k]

BufferKept == g_vfd_state'.display_buffer = g_vfd_state.display_buffer

\* What vfd_read_segments(g, &x) would give in the current state
ReadBack(g) ==
    LET r == vfd_read_segments(g_vfd_state, g, Ptr(0)) IN [ret |-> r.ret, val |-> r.val]

(* C12: on an initialized driver, vfd_write_segments(g, P) with g in 0..8   *)
(* returns VFD_OK for every byte P, stores P unchanged and leaves the other *)
(* 8 cells as they were; a vfd_read_segments(g) that follows returns VFD_OK *)
(* and delivers exactly P; vfd_read_segments never changes the buffer.      *)
C12_WriteThenRead ==
    [][ /\ (/\ op'.name = "vfd_write_segments"
            /\ g_vfd_state.initialized
            /\ op'.grid \in 0..8) =>
               /\ ret' = VFD_OK
               /\ g_vfd_state'.display_buffer[op'.grid] = op'.segments
               /\ OtherCellsKept(op'.grid)
        /\ (/\ op.name = "vfd_write_segments"
            /\ ret = VFD_OK
            /\ op'.name = "vfd_read_segments"
            /\ op'.grid = op.grid
            /\ ~op'.segments.null) =>
               /\ ret' = VFD_OK
               /\ out' = op.segments
        /\ op'.name = "vfd_read_segments" => BufferKept ]_vars

\* The pattern 0x81 was written to grid 3 and read back; the other cells
\* still hold the digits 1..9
C12_Witness ==
    /\ op.name = "vfd_read_segments"
    /\ ret = VFD_OK
    /\ input = <<3, 129>>
    /\ out = 129
    /\ g_vfd_state.display_buffer[3] = 129
    /\ \A k \in 0..8 : k # 3 => g_vfd_state.display_buffer[k] = DIGIT_PATTERNS(k + 1)

(* C13: on an initialized driver, vfd_write_digit(g, d) with g in 0..8 and  *)
(* d in 0..9 returns VFD_OK, sets cell g to the pattern of d and leaves the *)
(* other 8 cells as they were; with g in 0..8 and d > 9 it returns          *)
(* VFD_ERR_INVALID_PARAM and leaves the whole buffer as it was.             *)
C13_WriteDigit ==
    [][ (/\ op'.name = "vfd_write_digit"
         /\ g_vfd_state.initialized
         /\ op'.grid \in 0..8) =>
            IF op'.digit <= 9
            THEN /\ ret' = VFD_OK
                 /\ g_vfd_state'.display_buffer[op'.grid] = DIGIT_PATTERNS(op'.digit)
                 /\ OtherCellsKept(op'.grid)
            ELSE /\ ret' = VFD_ERR_INVALID_PARAM
                 /\ BufferKept ]_vars

\* Digit 7 was written to grid 0, over the 1 that was there
C13_Witness ==
    /\ op.name = "vfd_write_digit"
    /\ ret = VFD_OK
    /\ input = <<0, 7>>
    /\ g_vfd_state.display_buffer[0] = VFD_DIGIT_7
    /\ g_vfd_state.display_buffer[1] = VFD_DIGIT_2

(* C14: on an initialized driver, for every grid index from 9 to 255,       *)
(* vfd_write_segments, vfd_write_digit and vfd_read_segments return         *)
(* VFD_ERR_INVALID_GRID (vfd_write_digit also when the digit is above 9),   *)
(* no cell of the buffer changes and nothing is delivered to the caller.    *)
C14_InvalidGrid ==
    [][ (/\ op'.name \in {"vfd_write_segments", "vfd_write_digit", "vfd_read_segments"}
         /\ g_vfd_state.initialized
         /\ op'.grid >= 9) =>
            /\ ret' = VFD_ERR_INVALID_GRID
            /\ BufferKept
            /\ out' = -1 ]_vars

\* vfd_write_digit was refused for grid 255 with a digit that is itself out
\* of range
C14_Witness ==
    /\ op.name = "vfd_write_digit"
    /\ g_vfd_state.initialized
    /\ input = <<255, 10>>
    /\ ret = VFD_ERR_INVALID_GRID
    /\ \A k \in 0..8 : g_vfd_state.display_buffer[k] = DIGIT_PATTERNS(k + 1)

\* The segments a pattern lights: 0 is A, ..., 6 is G, 7 is the decimal point
LitSegments(p) == {b \in 0..7 : (p \div 2^b) % 2 = 1}

\* The segments of the digits 0..9 on a 7-segment display
StandardSegments(d) ==
    << {0, 1, 2, 3, 4, 5}, {1, 2}, {0, 1, 3, 4, 6}, {0, 1, 2, 3, 6}, {1, 2, 5, 6},
       {0, 2, 3, 5, 6}, {0, 2, 3, 4, 5, 6}, {0, 1, 2}, {0, 1, 2, 3, 4, 5, 6},
       {0, 1, 2, 3, 5, 6} >>[d + 1]

(* C15: the patterns are a fixed table: digit d, d = 0..9, lights the       *)
(* standard 7-segment strokes with A on bit 0 through G on bit 6 (digit 0   *)
(* lights exactly A..F), no digit has bit 7 set, the dot is bit 7 alone,    *)
(* the dash is G alone, blank is 0, the 13 patterns are pairwise distinct,  *)
(* and vfd_write_digit stores the pattern of its digit.                     *)
C15_SegmentTable ==
    /\ \A d \in 0..9 :
           /\ LitSegments(DIGIT_PATTERNS(d)) = StandardSegments(d)
           /\ DIGIT_PATTERNS(d) \in 0..127
    /\ LitSegments(VFD_DIGIT_0) = 0..5
    /\ DIGIT_PATTERNS(0) = VFD_DIGIT_0
    /\ DIGIT_PATTERNS(10) = VFD_SYMBOL_DOT
    /\ LitSegments(VFD_SYMBOL_DOT) = {7}
    /\ DIGIT_PATTERNS(11) = VFD_SYMBOL_DASH
    /\ LitSegments(VFD_SYMBOL_DASH) = {6}
    /\ DIGIT_PATTERNS(12) = VFD_BLANK
    /\ VFD_BLANK = 0
    /\ Cardinality({DIGIT_PATTERNS(i) : i \in 0..12}) = 13
    /\ (op.name = "vfd_write_digit" /\ ret = VFD_OK) =>
           LitSegments(g_vfd_state.display_buffer[op.grid]) = StandardSegments(op.digit)

\* Digit 6 was written and its cell lights A, C, D, E, F and G
C15_Witness ==
    /\ op.name = "vfd_write_digit"
    /\ ret = VFD_OK
    /\ op.digit = 6
    /\ LitSegments(g_vfd_state.display_buffer[op.grid]) = {0, 2, 3, 4, 5, 6}

(* C16: on an initialized driver, vfd_clear returns VFD_OK and afterwards   *)
(* vfd_read_segments(g) delivers the blank pattern for every g in 0..8;     *)
(* vfd_fill_buffer(P) returns VFD_OK and afterwards every cell equals P,    *)
(* for every byte P; neither makes a transport call.                        *)
C16_ClearAndFill ==
    [][ /\ (op'.name = "vfd_clear" /\ g_vfd_state.initialized) =>
               /\ ret' = VFD_OK
               /\ events' = <<>>
               /\ gpio' = gpio
               /\ \A g \in 0..8 : ReadBack(g)' = [ret |-> VFD_OK, val |-> VFD_BLANK]
        /\ (op'.name = "vfd_fill_buffer" /\ g_vfd_state.initialized) =>
               /\ ret' = VFD_OK
               /\ events' = <<>>
               /\ gpio' = gpio
               /\ \A g \in 0..8 :
                      /\ g_vfd_state'.display_buffer[g] = op'.segments
                      /\ ReadBack(g)' = [ret |-> VFD_OK, val |-> op'.segments]
        /\ (/\ op.name = "vfd_clear"
            /\ op'.name = "vfd_read_segments"
            /\ g_vfd_state.initialized
            /\ op'.grid \in 0..8) =>
               /\ ret' = VFD_OK
               /\ out' = VFD_BLANK ]_vars

\* The buffer that held the digits 1..9 was filled with 0xA5
C16_Witness ==
    /\ op.name = "vfd_fill_buffer"
    /\ g_vfd_state.initialized
    /\ ret = VFD_OK
    /\ op.segments = 165
    /\ events = <<>>
    /\ \A g \in 0..8 : g_vfd_state.display_buffer[g] = 165

---------------------------------------------------------------------------
(* vfd_init *)

\* The call being made is vfd_init on a driver that is not initialized
InitCalled == op'.name = "vfd_init" /\ ~g_vfd_state.initialized

\* Its configuration is absent, or has a nonzero clock rate and settle delay
ConfigAccepted(config) ==
    config.null \/ (config.v.spi_baudrate # 0 /\ config.v.refresh_interval_us # 0)

\* The configuration that applies when config is supplied, or when it is not
Applied(config) ==
    IF config.null
    THEN [spi_baudrate |-> 2000000, pin_spi_tx |-> 11, pin_spi_clk |-> 10,
          pin_latch |-> 13, refresh_interval_us |-> 1500]
    ELSE config.v

TransportKept == events' = <<>> /\ gpio' = gpio /\ spi_enabled' = spi_enabled

(* C17: vfd_init on a driver that is not initialized, with no config or a   *)
(* config whose clock rate and settle delay are nonzero, and with a         *)
(* transport that configures, returns VFD_OK and leaves the driver          *)
(* initialized, with the stored config equal to the supplied one (to        *)
(* 2000000 Hz, data pin 11, clock pin 10, latch pin 13, 1500 us when none   *)
(* is supplied), the latch pin an output at level 0, and all 9 cells blank; *)
(* it makes no serial write.                                                *)
C17_InitSucceeds ==
    [][ (/\ InitCalled
         /\ ConfigAccepted(op'.config)
         /\ op'.actual_baudrate # 0) =>
            /\ ret' = VFD_OK
            /\ g_vfd_state'.initialized
            /\ g_vfd_state'.config = Applied(op'.config)
            /\ gpio'[Applied(op'.config).pin_latch] =
                   [func |-> "SIO", out_dir |-> TRUE, level |-> 0]
            /\ spi_enabled'
            /\ \A g \in 0..8 : g_vfd_state'.display_buffer[g] = VFD_BLANK
            /\ SpiFrames(events') = <<>> ]_vars

\* vfd_init has set the driver up with the supplied configuration
C17_Witness ==
    /\ op.name = "vfd_init"
    /\ op.config = Ptr(custom_config)
    /\ ret = VFD_OK
    /\ events # <<>>
    /\ g_vfd_state.initialized
    /\ g_vfd_state.config = custom_config
    /\ gpio[12] = [func |-> "SIO", out_dir |-> TRUE, level |-> 0]

(* C18: vfd_init on a driver that is already initialized returns VFD_OK     *)
(* whatever config it is given, leaves the stored configuration (and the    *)
(* rest of the driver state) as the first successful call set it, and       *)
(* makes no transport call.                                                 *)
C18_InitIdempotent ==
    [][ (op'.name = "vfd_init" /\ g_vfd_state.initialized) =>
            /\ ret' = VFD_OK
            /\ g_vfd_state' = g_vfd_state
            /\ TransportKept ]_vars

\* A driver set up with the default configuration, and holding a lit cell,
\* was given another configuration
C18_Witness ==
    /\ op.name = "vfd_init"
    /\ op.config = Ptr(custom_config)
    /\ ret = VFD_OK
    /\ events = <<>>
    /\ g_vfd_state.initialized
    /\ g_vfd_state.config = vfd_default_config
    /\ g_vfd_state.display_buffer[0] # VFD_BLANK

(* C19: vfd_init on a driver that is not initialized, with a config whose   *)
(* clock rate is zero or whose settle delay is zero, returns                *)
(* VFD_ERR_INVALID_PARAM without any transport call, leaves the stored      *)
(* configuration and the buffer as they were, and leaves the driver not     *)
(* initialized.                                                             *)
C19_InitRejectsZero ==
    [][ (InitCalled /\ ~ConfigAccepted(op'.config)) =>
            /\ ret' = VFD_ERR_INVALID_PARAM
            /\ TransportKept
            /\ g_vfd_state'.config = g_vfd_state.config
            /\ BufferKept
            /\ ~g_vfd_state'.initialized ]_vars

\* A config with a zero settle delay was refused by a driver that still
\* holds the configuration of an earlier session
C19_Witness ==
    /\ op.name = "vfd_init"
    /\ ~op.config.null
    /\ op.config.v.spi_baudrate # 0
    /\ op.config.v.refresh_interval_us = 0
    /\ ret = VFD_ERR_INVALID_PARAM
    /\ events = <<>>
    /\ ~g_vfd_state.initialized
    /\ g_vfd_state.config = custom_config

\* The calls that read or write the display buffer, or refresh the display
BufferOrRefreshCalls ==
    {"vfd_write_segments", "vfd_write_digit", "vfd_write_string", "vfd_fill_buffer",
     "vfd_clear", "vfd_read_segments", "vfd_refresh"}

(* C20: when spi_init reports an actual clock rate of 0, vfd_init returns   *)
(* VFD_ERR_HARDWARE after that single spi_init (no second attempt, no other *)
(* clock rate) and leaves the driver not initialized; a buffer or refresh   *)
(* call that follows returns VFD_ERR_NOT_INITIALIZED; a vfd_init that       *)
(* follows with a transport that configures returns VFD_OK and leaves the   *)
(* driver initialized.                                                      *)
C20_HardwareFailure ==
    [][ /\ (/\ InitCalled
            /\ ConfigAccepted(op'.config)
            /\ op'.actual_baudrate = 0) =>
               /\ ret' = VFD_ERR_HARDWARE
               /\ ~g_vfd_state'.initialized
               /\ events' = <<StdioInitAll,
                              SpiInit(Applied(op'.config).spi_baudrate, 0)>>
               /\ ~spi_enabled'
        /\ (op.name = "vfd_init" /\ ret = VFD_ERR_HARDWARE) =>
               /\ op'.name \in BufferOrRefreshCalls =>
                      /\ ret' = VFD_ERR_NOT_INITIALIZED
                      /\ ~g_vfd_state'.initialized
               /\ (/\ op'.name = "vfd_init"
                   /\ ConfigAccepted(op'.config)
                   /\ op'.actual_baudrate # 0) =>
                      /\ ret' = VFD_OK
                      /\ g_vfd_state'.initialized ]_vars

---------------------------------------------------------------------------
(* vfd_deinit and the life cycle *)

(* C21: vfd_deinit on an initialized driver blanks all 9 cells, makes one   *)
(* full refresh (9 serial writes, for grids 0..8 in order, each with a zero *)
(* segment byte), then calls spi_deinit, and leaves the driver not          *)
(* initialized, returning VFD_OK; spi_deinit is its last transport call, so *)
(* no serial write follows it.  On a driver that is not initialized it      *)
(* returns VFD_ERR_NOT_INITIALIZED and changes nothing.                     *)
C21_Deinit ==
    [][ op'.name = "vfd_deinit" =>
            IF g_vfd_state.initialized
            THEN /\ ret' = VFD_OK
                 /\ \A g \in 0..8 : g_vfd_state'.display_buffer[g] = VFD_BLANK
                 /\ Len(events') = 46
                 /\ LET f == SpiFrames(SubSeq(events', 1, 45))
                    IN  /\ Len(f) = 9
                        /\ \A g \in 0..8 :
                               FrameValue(f[g + 1]) = ControlWord(0, OneHot(g), 0)
                 /\ \A i \in 1..45 : events'[i] # SpiDeinit
                 /\ events'[46] = SpiDeinit
                 /\ ~spi_enabled'
                 /\ ~g_vfd_state'.initialized
            ELSE /\ ret' = VFD_ERR_NOT_INITIALIZED
                 /\ g_vfd_state' = g_vfd_state
                 /\ TransportKept ]_vars

\* vfd_deinit has blanked the display and released the SPI peripheral
C21_Witness ==
    /\ op.name = "vfd_deinit"
    /\ ret = VFD_OK
    /\ ~g_vfd_state.initialized
    /\ Len(SpiFrames(events)) = 9
    /\ events[Len(events)] = SpiDeinit
    /\ ~spi_enabled

\* Some vfd_init has succeeded (the latch pin has been set up) and the
\* driver is not initialized: vfd_deinit has run since the last successful
\* vfd_init
Deinitialized ==
    /\ ~g_vfd_state.initialized
    /\ \E p \in Pins : gpio[p].func = "SIO"

(* C22: after a successful vfd_deinit the driver is not initialized; until  *)
(* the next successful vfd_init, vfd_is_initialized gives false, vfd_deinit *)
(* returns VFD_ERR_NOT_INITIALIZED, and every buffer or refresh call        *)
(* returns VFD_ERR_NOT_INITIALIZED and makes no transport call; a vfd_init  *)
(* with an accepted config and a working transport returns VFD_OK, stores   *)
(* the config it is given and leaves all 9 cells blank.                     *)
C22_AfterDeinit ==
    [][ /\ (op'.name = "vfd_deinit" /\ ret' = VFD_OK) => ~g_vfd_state'.initialized
        /\ Deinitialized =>
               /\ op'.name = "vfd_is_initialized" => out' = 0
               /\ op'.name = "vfd_deinit" => ret' = VFD_ERR_NOT_INITIALIZED
               /\ op'.name \in BufferOrRefreshCalls =>
                      /\ ret' = VFD_ERR_NOT_INITIALIZED
                      /\ TransportKept
               /\ (/\ op'.name = "vfd_init"
                   /\ ConfigAccepted(op'.config)
                   /\ op'.actual_baudrate # 0) =>
                      /\ ret' = VFD_OK
                      /\ g_vfd_state'.initialized
                      /\ g_vfd_state'.config = Applied(op'.config)
                      /\ \A g \in 0..8 : g_vfd_state'.display_buffer[g] = VFD_BLANK ]_vars

(* C23: in every reachable state in which the driver is initialized the     *)
(* stored clock rate and settle delay are nonzero, and no call made while   *)
(* the driver is and stays initialized changes the stored configuration.    *)
C23_ConfigStable ==
    [][ /\ g_vfd_state'.initialized =>
               /\ g_vfd_state'.config.spi_baudrate # 0
               /\ g_vfd_state'.config.refresh_interval_us # 0
        /\ (g_vfd_state.initialized /\ g_vfd_state'.initialized) =>
               g_vfd_state'.config = g_vfd_state.config ]_vars

\* An initialized driver was given a config with a zero settle delay and
\* kept the configuration it had
C23_Witness ==
    /\ op.name = "vfd_init"
    /\ ~op.config.null
    /\ op.config.v.refresh_interval_us = 0
    /\ ret = VFD_OK
    /\ g_vfd_state.initialized
    /\ g_vfd_state.config = custom_config

(* C24: vfd_write_segments, vfd_write_digit, vfd_write_string, vfd_clear,   *)
(* vfd_fill_buffer, vfd_read_segments and vfd_get_buffer make no transport  *)
(* call (no serial write, no latch change, no delay); vfd_refresh and       *)
(* vfd_send_control_command leave all 9 cells of the buffer as they were.   *)
C24_BufferVersusWire ==
    [][ /\ op'.name \in {"vfd_write_segments", "vfd_write_digit", "vfd_write_string",
                         "vfd_clear", "vfd_fill_buffer", "vfd_read_segments",
                         "vfd_get_buffer"} => TransportKept
        /\ op'.name \in {"vfd_refresh", "vfd_send_control_command"} => BufferKept ]_vars

\* A pattern was stored in a cell of an initialized driver and nothing was
\* sent: the bytes last transmitted are still those of an earlier refresh
C24_Witness ==
    /\ op.name = "vfd_write_segments"
    /\ ret = VFD_OK
    /\ events = <<>>
    /\ g_vfd_state.display_buffer[8] = 255
    /\ g_vfd_state.spi_data = raw_spi_data(combined_data(8, VFD_BLANK))

---------------------------------------------------------------------------
(* vfd_send_control_command *)

(* C25: for every command code c in 0..7, vfd_send_control_command on an    *)
(* initialized driver returns VFD_OK and makes exactly one serial write,    *)
(* followed by one latch pulse (high, 1 us, low) and no settle delay; the   *)
(* frame has a zero pad, its 20-bit payload has c in its top 3 bits and     *)
(* zero in the 17 bits of the grid mask and the segments.                   *)
C25_CommandFrame ==
    [][ (/\ op'.name = "vfd_send_control_command"
         /\ g_vfd_state.initialized
         /\ ~op'.cmd.null
         /\ op'.cmd.v \in 0..7) =>
            /\ ret' = VFD_OK
            /\ Len(events') = 4
            /\ IsSpiWrite(events'[1])
            /\ SubSeq(events', 2, 4) = <<GpioPut(g_vfd_state.config.pin_latch, 1),
                                         SleepUs(1),
                                         GpioPut(g_vfd_state.config.pin_latch, 0)>>
            /\ LET v == FrameValue(events'[1])
               IN  /\ v \div 1048576 = 0
                   /\ (v % 1048576) \div 131072 = op'.cmd.v
                   /\ (v % 1048576) % 131072 = 0 ]_vars

\* Command 5 was sent: the frame is 0x0A 0x00 0x00
C25_Witness ==
    /\ op.name = "vfd_send_control_command"
    /\ ret = VFD_OK
    /\ ~op.cmd.null
    /\ op.cmd.v = 5
    /\ events[1] = SpiWrite(10, 0, 0)
    /\ Len(events) = 4

(* C26: vfd_send_control_command on an initialized driver with a command    *)
(* code above 7, or with no command object, returns VFD_ERR_INVALID_PARAM   *)
(* before anything is packed: spi_data is not written, there is no          *)
(* transport call, and the buffer is as it was.                             *)
C26_CommandRejected ==
    [][ (/\ op'.name = "vfd_send_control_command"
         /\ g_vfd_state.initialized
         /\ (op'.cmd.null \/ op'.cmd.v > 7)) =>
            /\ ret' = VFD_ERR_INVALID_PARAM
            /\ TransportKept
            /\ g_vfd_state' = g_vfd_state ]_vars

\* Command 255 was refused
C26_Witness ==
    /\ op.name = "vfd_send_control_command"
    /\ g_vfd_state.initialized
    /\ ~op.cmd.null
    /\ op.cmd.v = 255
    /\ ret = VFD_ERR_INVALID_PARAM
    /\ events = <<>>

\* The values of all the frames the driver, in the state it is in, has a way
\* to transmit: those of _write_vfd_raw, which vfd_refresh calls with a grid
\* 0..8 and the byte of its cell, and those of vfd_send_control_command for
\* the commands 0..7
TransmittableFrames ==
    {FrameValue(_write_vfd_raw(g_vfd_state, g, p).ev[1]) : g \in 0..8, p \in Bytes}
    \cup {FrameValue(vfd_send_control_command(g_vfd_state, Ptr(c)).ev[1]) : c \in 0..7}

\* A frame with a nonzero command and the mask of one grid
Combined(v) == CmdField(v) # 0 /\ GridField(v) \in {OneHot(g) : g \in 0..8}

\* The last call transmitted such a frame
CombinedFrameSent ==
    \E i \in 1..Len(events) : IsSpiWrite(events[i]) /\ Combined(FrameValue(events[i]))

(* C27: a command code can be combined with display data in one frame:      *)
(* among the frames the public API can make an initialized driver transmit  *)
(* there is one whose command field is nonzero and whose grid mask is that  *)
(* of an addressed grid.                                                    *)
C27_CombinedFrame ==
    g_vfd_state.initialized => \E v \in TransmittableFrames : Combined(v)

---------------------------------------------------------------------------
(* The latch line *)

\* The level of pin latch after the transport call e, given its level before
LevelAfter(e, latch, level) ==
    IF e[1] = "gpio_put" /\ e[2] = latch THEN e[3]
    ELSE IF e[1] = "gpio_init" /\ e[2] = latch THEN 0
    ELSE level

\* Walk the transport calls ev from the i-th on, the latch being at level
\* before it: a serial write starts only with the latch low; the latch goes
\* high only right after a serial write, to be held for 1 us and dropped;
\* the latch is low at the end
RECURSIVE LatchDiscipline(_, _, _, _)
LatchDiscipline(ev, latch, i, level) ==
    IF i > Len(ev) THEN level = 0
    ELSE LET next == LevelAfter(ev[i], latch, level)
         IN  /\ IsSpiWrite(ev[i]) => level = 0
             /\ next = 1 =>
                    \/ /\ level = 0
                       /\ i > 1
                       /\ IsSpiWrite(ev[i - 1])
                       /\ i + 2 <= Len(ev)
                       /\ ev[i + 1] = SleepUs(1)
                       /\ ev[i + 2] = GpioPut(latch, 0)
                    \/ /\ level = 1
                       /\ ev[i] = SleepUs(1)
             /\ LatchDiscipline(ev, latch, i + 1, next)

(* C30: from a successful vfd_init on, the latch pin is an output at level  *)
(* 0 whenever no call is running; within a call it is high only for the     *)
(* 1 us hold that immediately follows a completed 3-byte serial write, and  *)
(* no serial write starts while it is high.                                 *)
C30_LatchIdlesLow ==
    [][ (g_vfd_state.initialized \/ g_vfd_state'.initialized) =>
            LET latch == g_vfd_state'.config.pin_latch
            IN  /\ gpio'[latch] = [func |-> "SIO", out_dir |-> TRUE, level |-> 0]
                /\ LatchDiscipline(events', latch, 1, gpio[latch].level) ]_vars

\* A refresh has pulsed the latch 9 times and left it low
C30_Witness ==
    /\ RefreshDone
    /\ g_vfd_state.initialized
    /\ gpio[g_vfd_state.config.pin_latch].level = 0
    /\ Len(SelectSeq(events,
                     LAMBDA e : e = GpioPut(g_vfd_state.config.pin_latch, 1))) = 9

---------------------------------------------------------------------------
(* A sweep that is interrupted *)

\* A vfd_refresh followed statement by statement has returned VFD_OK
SweepDone == running.pc = "idle" /\ op.name = "vfd_refresh" /\ ret = VFD_OK

\* The values of the frames on the wire since the sweep began, in order
WireWords ==
    LET f == SpiFrames(events) IN [i \in 1..Len(f) |-> FrameValue(f[i])]

\* The frame of a command the handler sends
IsIrqCommandWord(v) == v \in {ControlWord(c, 0, 0) : c \in IrqCommands}

IsSweepWord(v) == ~IsIrqCommandWord(v)

(* C28: a vfd_send_control_command that interrupts a sweep at any point     *)
(* leaves both transmissions whole: the sweep still sends, for the grids    *)
(* 0..8 in order, exactly the frame (command 0, mask of g, buffer[g]), and  *)
(* each command is sent as one intact command frame.                        *)
C28_SweepUnaffected ==
    SweepDone =>
        /\ Len(SelectSeq(WireWords, IsIrqCommandWord)) = running.interrupts
        /\ SelectSeq(WireWords, IsSweepWord) =
               [k \in 1..9 |-> ControlWord(0, OneHot(k - 1),
                                           g_vfd_state.display_buffer[k - 1])]

(* C29: when the buffer is changed while a sweep is in progress, the sweep  *)
(* still sends one frame per grid, for the grids 0..8 in order, and the     *)
(* segment byte it sends for grid g is one of the patterns cell g held      *)
(* during the sweep (the old or a new one, nothing else); a sweep during    *)
(* which the buffer is not changed sends exactly the buffer.                *)
C29_TornSweep ==
    op.name = "vfd_refresh" =>
        /\ Len(WireWords) <= 9
        /\ \A k \in 1..Len(WireWords) :
               /\ CmdField(WireWords[k]) = 0
               /\ GridField(WireWords[k]) = OneHot(k - 1)
               /\ SegField(WireWords[k]) \in running.held[k - 1]
        /\ SweepDone =>
               /\ Len(WireWords) = 9
               /\ running.interrupts = 0 =>
                      /\ \A k \in 1..9 :
                             SegField(WireWords[k]) = g_vfd_state.display_buffer[k - 1]
                      /\ events = vfd_refresh(g_vfd_state).ev

\* A sweep has sent the old pattern of grid 0, which was changed after its
\* frame, and the new pattern of grid 4, which was changed before its frame
C29_Witness ==
    /\ SweepDone
    /\ running.interrupts = 2
    /\ SegField(WireWords[1]) = VFD_DIGIT_1
    /\ g_vfd_state.display_buffer[0] = 255
    /\ SegField(WireWords[5]) = 255
    /\ g_vfd_state.display_buffer[4] = 255

---------------------------------------------------------------------------
(* The buffer handle *)

(* C31: vfd_get_buffer returns NULL while the driver is not initialized;    *)
(* while it is initialized it returns the address of the driver's own       *)
(* buffer, and changes nothing.  A value stored through that address at     *)
(* index g of an initialized driver is what a vfd_read_segments(g) that     *)
(* follows delivers and what a vfd_refresh that follows sends for grid g.   *)
C31_BufferHandle ==
    [][ /\ op'.name = "vfd_get_buffer" =>
               /\ handle' = IF g_vfd_state.initialized
                            THEN Ptr("display_buffer") ELSE NullPtr
               /\ g_vfd_state' = g_vfd_state
               /\ TransportKept
        /\ (/\ op.name = "store_via_handle"
            /\ g_vfd_state.initialized
            /\ op'.name = "vfd_read_segments"
            /\ op'.grid = op.grid
            /\ ~op'.segments.null) =>
               /\ ret' = VFD_OK
               /\ out' = op.segments
        /\ (/\ op.name = "store_via_handle"
            /\ g_vfd_state.initialized
            /\ op'.name = "vfd_refresh") =>
               /\ ret' = VFD_OK
               /\ FrameValue(SpiFrames(events')[op.grid + 1]) =
                      ControlWord(0, OneHot(op.grid), op.segments) ]_vars

\* On an initialized driver whose other cells are blank, 0xFF has just been
\* stored in cell 8 through the address vfd_get_buffer gave
C31_Witness ==
    /\ op.name = "store_via_handle"
    /\ op.grid = 8
    /\ handle = Ptr("display_buffer")
    /\ g_vfd_state.initialized
    /\ g_vfd_state.display_buffer[8] = 255
    /\ g_vfd_state.display_buffer[0] = VFD_BLANK
    /\ ReadBack(8) = [ret |-> VFD_OK, val |-> 255]

---------------------------------------------------------------------------
(* The error codes *)

\* The public functions that return a vfd_error_t
ErrorReturning ==
    {"vfd_init", "vfd_deinit", "vfd_write_segments", "vfd_read_segments",
     "vfd_write_digit", "vfd_clear", "vfd_refresh", "vfd_write_string",
     "vfd_fill_buffer", "vfd_send_control_command"}

(* C32: every public function that returns an error code returns one of     *)
(* VFD_OK, VFD_ERR_INVALID_PARAM, VFD_ERR_NOT_INITIALIZED,                  *)
(* VFD_ERR_INVALID_GRID and VFD_ERR_HARDWARE; VFD_ERR_INVALID_SEGMENT is    *)
(* returned by no call, in no state, for no arguments.                      *)
C32_ErrorSurface ==
    /\ ret # VFD_ERR_INVALID_SEGMENT
    /\ op.name \in ErrorReturning =>
           ret \in {VFD_OK, VFD_ERR_INVALID_PARAM, VFD_ERR_NOT_INITIALIZED,
                    VFD_ERR_INVALID_GRID, VFD_ERR_HARDWARE}

\* The pattern with all 8 bits set was accepted for a valid grid
C32_Witness ==
    /\ op.name = "vfd_write_segments"
    /\ op.segments = 255
    /\ op.grid = 8
    /\ ret = VFD_OK
    /\ g_vfd_state.display_buffer[8] = 255

\* The description the documentation gives for an error code
Description(error) ==
    CASE error = VFD_OK -> "Operation successful"
      [] error = VFD_ERR_INVALID_PARAM -> "Invalid parameter provided"
      [] error = VFD_ERR_NOT_INITIALIZED -> "VFD not initialized"
      [] error = VFD_ERR_INVALID_GRID -> "Grid index out of range"
      [] error = VFD_ERR_INVALID_SEGMENT -> "Segment value out of range"
      [] error = VFD_ERR_HARDWARE -> "Hardware initialization failed"
      [] OTHER -> "Unknown error"

(* C33: vfd_strerror gives each of the six codes 0..5 its own description,  *)
(* the six being pairwise distinct and none of them "Unknown error", and    *)
(* gives "Unknown error" for every other value; the answer is the same in   *)
(* every state of the driver, and the call changes neither the driver nor   *)
(* the transport.                                                           *)
C33_Strerror ==
    [][ op'.name = "vfd_strerror" =>
            /\ out' = Description(op'.error)
            /\ \A e \in 0..5 :
                   (op'.error # e => out' # Description(e))
                   /\ Description(e) # "Unknown error"
            /\ op'.error \notin 0..5 => out' = "Unknown error"
            /\ g_vfd_state' = g_vfd_state
            /\ TransportKept ]_vars

\* The description of VFD_ERR_HARDWARE was asked for on a driver that is
\* initialized and holds a lit cell
C33_Witness ==
    /\ op.name = "vfd_strerror"
    /\ op.error = VFD_ERR_HARDWARE
    /\ out = "Hardware initialization failed"
    /\ g_vfd_state.initialized
    /\ g_vfd_state.display_buffer[0] = 255

---------------------------------------------------------------------------
(* The documented example word *)

\* A refresh has sent the buffer in which grid 0 holds the pattern of digit 5
DigitFiveOnGridZero ==
    /\ RefreshDone
    /\ input = <<0, DIGIT_PATTERNS(5)>>
    /\ g_vfd_state.display_buffer[0] = DIGIT_PATTERNS(5)

---------------------------------------------------------------------------
(* vfd_refresh called in a loop *)

\* The frame of grid g has just been sent
Struck(g) ==
    /\ running.pc = "raw_latch_high"
    /\ Len(SpiFrames(events)) > 0
    /\ GridField(FrameValue(SpiFrames(events)[Len(SpiFrames(events))])) = OneHot(g)

(* C35: when vfd_refresh is called in a loop on an initialized driver, the  *)
(* grids addressed form the sequence 0,1,...,8,0,1,...: the n-th frame of a *)
(* call addresses grid n-1, a call returns (VFD_OK) exactly after its 9th   *)
(* frame, so between two frames for the same grid there is exactly one for  *)
(* each of the other 8; every call returns, and every grid is addressed     *)
(* again and again.                                                         *)
C35_RefreshLoop ==
    /\ [][ /\ (running.pc = "raw_spi_write" /\ running'.pc = "raw_latch_high") =>
                  LET n == Len(SpiFrames(events'))
                  IN  /\ n = Len(SpiFrames(events)) + 1
                      /\ n <= 9
                      /\ GridField(FrameValue(SpiFrames(events')[n])) = OneHot(n - 1)
           /\ (running.pc # "idle" /\ running'.pc = "idle") =>
                  /\ Len(SpiFrames(events)) = 9
                  /\ ret' = VFD_OK
           /\ (running.pc = "idle" /\ running'.pc # "idle") =>
                  Len(SpiFrames(events')) = 0 ]_vars
    /\ (running.pc # "idle") ~> SweepDone
    /\ \A g \in 0..8 : []<>Struck(g)

\* Grid 0 is about to be addressed again: the staging bytes still hold the
\* frame sent for grid 8 by the call before
C35_Witness ==
    /\ running.pc = "raw_store0"
    /\ running.grid = 0
    /\ events = <<>>
    /\ g_vfd_state.spi_data = (0 :> 0 @@ 1 :> 1 @@ 2 :> g_vfd_state.display_buffer[8])

---------------------------------------------------------------------------
(* Calls that must change nothing *)

(* C36: vfd_write_string(NULL) on an initialized driver returns             *)
(* VFD_ERR_INVALID_PARAM and leaves the buffer (and the rest of the driver  *)
(* and the transport) exactly as it was: the buffer is not cleared.         *)
C36_WriteStringNull ==
    [][ (/\ op'.name = "vfd_write_string"
         /\ g_vfd_state.initialized
         /\ op'.str.null) =>
            /\ ret' = VFD_ERR_INVALID_PARAM
            /\ BufferKept
            /\ g_vfd_state' = g_vfd_state
            /\ touched' = {}
            /\ TransportKept ]_vars

\* A NULL string was refused by a driver whose buffer holds lit cells
C36_Witness ==
    /\ op.name = "vfd_write_string"
    /\ op.str.null
    /\ ret = VFD_ERR_INVALID_PARAM
    /\ g_vfd_state.initialized
    /\ g_vfd_state.display_buffer[0] = 255
    /\ g_vfd_state.display_buffer[8] = 255

(* C37: vfd_init on a driver that is already initialized changes nothing   *)
(* at all: it returns VFD_OK also when the config it is given has a zero    *)
(* clock rate or a zero settle delay; the buffer is not cleared again, the  *)
(* stored configuration stays, the driver stays initialized, the latch pin  *)
(* and every other pin keep function, direction and level, and no transport *)
(* call is made.                                                            *)
C37_InitWhileInitialized ==
    [][ (/\ op'.name = "vfd_init"
         /\ g_vfd_state.initialized) =>
            /\ ret' = VFD_OK
            /\ (~op'.config.null /\ ~ConfigAccepted(op'.config)) => ret' = VFD_OK
            /\ BufferKept
            /\ touched' = {}
            /\ g_vfd_state'.config = g_vfd_state.config
            /\ g_vfd_state'.initialized
            /\ gpio'[g_vfd_state.config.pin_latch] = gpio[g_vfd_state.config.pin_latch]
            /\ \A p \in Pins : gpio'[p] = gpio[p]
            /\ spi_enabled' = spi_enabled
            /\ events' = <<>> ]_vars

\* A config with a zero clock rate was given to a driver that runs with the
\* custom configuration and holds lit cells
C37_Witness ==
    /\ op.name = "vfd_init"
    /\ ~op.config.null
    /\ op.config.v.spi_baudrate = 0
    /\ ret = VFD_OK
    /\ g_vfd_state.initialized
    /\ g_vfd_state.config = custom_config
    /\ g_vfd_state.display_buffer[0] = 255
    /\ gpio[custom_config.pin_latch].level = 0

---------------------------------------------------------------------------
(* The library against the standalone program *)

\* The transport calls of a vfd_refresh that belong to grid g: the frame and
\* the latch pulse, without the settle delay that follows them
SweepPart(ev, g) == SubSeq(ev, 5 * g + 1, 5 * g + 4)

(* C38: for every grid 0..8 and every symbol index 0..12, when the cell of  *)
(* the grid holds the library's pattern for the symbol, the 3 bytes and the *)
(* latch high / hold / low sequence the library emits for that grid are     *)
(* those write_vfd(symbol, grid) of the standalone program emits.           *)
C38_RefinesLegacy ==
    /\ (op.name = "vfd_refresh" /\ ret = VFD_OK) =>
           SweepPart(events, input[1]) = write_vfd(input[2], input[1]).ev
    /\ op.name = "write_vfd" =>
           /\ g_vfd_state.display_buffer[op.grid] = DIGIT_PATTERNS(op.digit)
           /\ events = SweepPart(vfd_refresh(g_vfd_state).ev, op.grid)
           /\ events = _write_vfd_raw(g_vfd_state, op.grid,
                                      g_vfd_state.display_buffer[op.grid]).ev
           /\ \A k \in 0..2 : out[k] = events[1][k + 2]

\* The standalone program has sent the decimal point (symbol 10) to grid 8
C38_Witness ==
    /\ op.name = "write_vfd"
    /\ input = <<8, 10>>
    /\ events = <<SpiWrite(0, 1, 128), GpioPut(13, 1), SleepUs(1), GpioPut(13, 0)>>
    /\ g_vfd_state.display_buffer[8] = VFD_SYMBOL_DOT

=============================================================================
